---- MODULE Spec2Model ----
(***************************************************************************)
(* Model of the PBA grading engine (grading_logic.py): the duration        *)
(* parser, the guideline tables, the per-question graders, the submission  *)
(* aggregator grade_submission and the overall decision                    *)
(* determine_overall_grade.                                                *)
(*                                                                         *)
(* Answers are strings.  A parsed duration is None, an exact rational      *)
(* number of seconds, an infinity or a not-a-number, as Python's float()   *)
(* produces them.  Arithmetic on numbers is exact.                         *)
(***************************************************************************)
EXTENDS Integers, Sequences, FiniteSets, TLC

(***************************************************************************)
(* Text helpers (Python str methods and the regular expressions used).     *)
(***************************************************************************)
Ch(s, i) == SubSeq(s, i, i)

DIGITS == "0123456789"

IsDigit(c) == \E i \in 1..10 : Ch(DIGITS, i) = c

IsSpace(c) == c \in {" ", "\t", "\n"}

\* str.lower() on ASCII letters
RECURSIVE Lower(_)
Lower(s) ==
  LET upper == "ABCDEFGHIJKLMNOPQRSTUVWXYZ"
      lower == "abcdefghijklmnopqrstuvwxyz"
      c == Head(s)
  IN IF s = "" THEN ""
     ELSE (IF \E i \in 1..26 : Ch(upper, i) = c
           THEN Ch(lower, CHOOSE i \in 1..26 : Ch(upper, i) = c)
           ELSE c) \o Lower(Tail(s))

RECURSIVE LStrip(_)
LStrip(s) == IF s # "" /\ IsSpace(Head(s)) THEN LStrip(Tail(s)) ELSE s

RECURSIVE RStrip(_)
RStrip(s) ==
  IF s # "" /\ IsSpace(Ch(s, Len(s))) THEN RStrip(SubSeq(s, 1, Len(s) - 1)) ELSE s

Strip(s) == RStrip(LStrip(s))

RECURSIVE LStripCh(_, _)
LStripCh(s, c) == IF s # "" /\ Head(s) = c THEN LStripCh(Tail(s), c) ELSE s

RECURSIVE StripCh(_, _)
StripCh(s, c) ==
  IF s # "" /\ Head(s) = c THEN StripCh(Tail(s), c)
  ELSE IF s # "" /\ Ch(s, Len(s)) = c THEN StripCh(SubSeq(s, 1, Len(s) - 1), c)
  ELSE s

StartsWith(s, p) == Len(p) <= Len(s) /\ SubSeq(s, 1, Len(p)) = p

Drop(s, k) == SubSeq(s, k + 1, Len(s))

Contains(s, p) == \E i \in 1..(Len(s) - Len(p) + 1) : SubSeq(s, i, i + Len(p) - 1) = p

\* str.replace(p, r): leftmost, non-overlapping, p non-empty
RECURSIVE Replace(_, _, _)
Replace(s, p, r) ==
  IF s = "" THEN ""
  ELSE IF StartsWith(s, p) THEN r \o Replace(Drop(s, Len(p)), p, r)
  ELSE Head(s) \o Replace(Tail(s), p, r)

\* re.sub(r'\s+', ' ', s)
RECURSIVE CollapseSpaces(_)
CollapseSpaces(s) ==
  IF s = "" THEN ""
  ELSE IF IsSpace(Head(s)) THEN " " \o CollapseSpaces(LStrip(s))
  ELSE Head(s) \o CollapseSpaces(Tail(s))

\* re.sub(r':+', ':', s)
RECURSIVE CollapseColons(_)
CollapseColons(s) ==
  IF s = "" THEN ""
  ELSE IF Head(s) = ":" THEN ":" \o CollapseColons(LStripCh(s, ":"))
  ELSE Head(s) \o CollapseColons(Tail(s))

\* the longest prefix of s made of digits (a greedy \d*)
RECURSIVE DigitPrefix(_)
DigitPrefix(s) ==
  IF s # "" /\ IsDigit(Head(s)) THEN Head(s) \o DigitPrefix(Tail(s)) ELSE ""

AllDigits(s) == s # "" /\ DigitPrefix(s) = s

\* int(s) for a string of digits
RECURSIVE ToInt(_)
ToInt(s) ==
  IF s = "" THEN 0
  ELSE 10 * ToInt(SubSeq(s, 1, Len(s) - 1))
       + (CHOOSE i \in 1..10 : Ch(DIGITS, i) = Ch(s, Len(s))) - 1

\* s.split(sep) for a one-character separator
RECURSIVE Split(_, _)
Split(s, sep) ==
  IF ~Contains(s, sep) THEN <<s>>
  ELSE LET i == CHOOSE j \in 1..Len(s) :
                  Ch(s, j) = sep /\ \A k \in 1..(j - 1) : Ch(s, k) # sep
       IN <<SubSeq(s, 1, i - 1)>> \o Split(Drop(s, i), sep)

\* s.split()[0] for a string holding a non-space character
RECURSIVE FirstWord(_)
FirstWord(s) ==
  LET t == LStrip(s)
  IN IF t = "" \/ IsSpace(Head(t)) THEN ""
     ELSE Head(t) \o (IF Len(t) > 1 /\ ~IsSpace(Ch(t, 2))
                      THEN FirstWord(Tail(t)) ELSE "")

(***************************************************************************)
(* Numbers: a Python float is an exact rational n/d (d > 0, lowest terms), *)
(* an infinity (n = 1 or -1) or not-a-number; None is Python's None and    *)
(* Err a raised ValueError.  e is the sign of a rounding error: the        *)
(* double that a computation yields lies just above (1) or just below (-1) *)
(* the exact n/d, closer to it than any other number the program compares  *)
(* it with.                                                                *)
(***************************************************************************)
RECURSIVE GCD(_, _)
GCD(a, b) == IF b = 0 THEN a ELSE GCD(b, a % b)

Abs(i) == IF i < 0 THEN -i ELSE i

Sign(i) == IF i < 0 THEN -1 ELSE IF i > 0 THEN 1 ELSE 0

Num(n, d) ==
  LET g == GCD(Abs(n), Abs(d))
      sg == IF d < 0 THEN -1 ELSE 1
  IN [k |-> "num", n |-> sg * (n \div g), d |-> sg * (d \div g), e |-> 0]

Int2Num(i) == [k |-> "num", n |-> i, d |-> 1, e |-> 0]

Inf(sg) == [k |-> "inf", n |-> sg, d |-> 0, e |-> 0]

NaN == [k |-> "nan", n |-> 0, d |-> 0, e |-> 0]

None == [k |-> "none", n |-> 0, d |-> 0, e |-> 0]

Err == [k |-> "err", n |-> 0, d |-> 0, e |-> 0]

IsNum(x) == x.k = "num"

\* sign of a float that is not a NaN
SgnOf(x) == Sign(x.n)

\* x < y, x <= y, x == y on floats; every comparison with a NaN is false
XLt(x, y) ==
  /\ x.k # "nan" /\ y.k # "nan"
  /\ IF x.k = "num" /\ y.k = "num"
     THEN x.n * y.d < y.n * x.d \/ (x.n * y.d = y.n * x.d /\ x.e < y.e)
     ELSE IF x.k = "inf" /\ y.k = "inf" THEN x.n < y.n
     ELSE IF x.k = "inf" THEN x.n < 0
     ELSE y.n > 0

XEq(x, y) ==
  /\ x.k # "nan" /\ y.k # "nan"
  /\ x.k = y.k /\ x.n = y.n /\ x.d = y.d /\ x.e = y.e

XLe(x, y) == XLt(x, y) \/ XEq(x, y)

XNeg(x) == IF x.k = "nan" THEN NaN ELSE [x EXCEPT !.n = -x.n, !.e = -x.e]

XAbs(x) == IF x.k = "nan" THEN NaN ELSE IF x.n < 0 THEN XNeg(x) ELSE x

\* a sum keeps the rounding error of its operands
XAdd(x, y) ==
  IF x.k = "nan" \/ y.k = "nan" THEN NaN
  ELSE IF x.k = "inf" /\ y.k = "inf" THEN (IF x.n = y.n THEN x ELSE NaN)
  ELSE IF x.k = "inf" THEN x
  ELSE IF y.k = "inf" THEN y
  ELSE [Num(x.n * y.d + y.n * x.d, x.d * y.d) EXCEPT !.e = Sign(x.e + y.e)]

XSub(x, y) == XAdd(x, XNeg(y))

\* products and quotients of exact operands
XMul(x, y) ==
  IF x.k = "nan" \/ y.k = "nan" THEN NaN
  ELSE IF x.k = "inf" \/ y.k = "inf"
       THEN (IF SgnOf(x) * SgnOf(y) = 0 THEN NaN ELSE Inf(SgnOf(x) * SgnOf(y)))
  ELSE Num(x.n * y.n, x.d * y.d)

\* x / y for a divisor that is not zero
XDiv(x, y) ==
  IF x.k = "nan" \/ y.k = "nan" THEN NaN
  ELSE IF x.k = "inf" /\ y.k = "inf" THEN NaN
  ELSE IF x.k = "inf" THEN Inf(SgnOf(x) * SgnOf(y))
  ELSE IF y.k = "inf" THEN Int2Num(0)
  ELSE Num(x.n * y.d, x.d * y.n)

\* truth value of "if x:" for x a float or None
Truthy(x) == x.k \in {"inf", "nan"} \/ (x.k = "num" /\ x.n # 0)

\* int(x) of a finite float: truncation toward zero
Trunc(x) == Sign(x.n) * (Abs(x.n) \div x.d)

\* floor of a finite float
Floor(x) == IF x.n >= 0 THEN x.n \div x.d ELSE -((-x.n + x.d - 1) \div x.d)

RECURSIVE Pow10(_)
Pow10(e) == IF e = 0 THEN 1 ELSE 10 * Pow10(e - 1)

\* float(s): sign, decimal digits with an optional point, optional exponent,
\* or inf / infinity / nan; digit-group underscores and exponents beyond the
\* range of a double are not modelled.
\* The literal is read left to right, each step handing on what it has read:
\* the sign sg, the digits ip before and fp after the point, the sign esg and
\* the value of the exponent.
FloatExpDigits(sg, ip, fp, esg, ed) ==
  IF ~AllDigits(ed) THEN Err
  ELSE LET mant == ToInt(ip) * Pow10(Len(fp)) + ToInt(fp)
           width == Pow10(Len(fp))
           scale == Pow10(ToInt(ed))
       IN IF esg = 1 THEN Num(sg * mant * scale, width) ELSE Num(sg * mant, width * scale)

FloatDigits(sg, ip, fp, r2) ==
  IF (ip = "" /\ fp = "") \/ (r2 # "" /\ ~StartsWith(r2, "e")) THEN Err
  ELSE FloatExpDigits(sg, ip, fp,
         IF StartsWith(r2, "e-") THEN -1 ELSE 1,
         IF r2 = "" THEN "0"
         ELSE IF StartsWith(r2, "e-") \/ StartsWith(r2, "e+") THEN Drop(r2, 2)
         ELSE Tail(r2))

FloatPoint(sg, ip, r) ==
  LET fp == IF StartsWith(r, ".") THEN DigitPrefix(Tail(r)) ELSE ""
  IN FloatDigits(sg, ip, fp,
       IF fp # "" THEN Drop(r, 1 + Len(fp))
       ELSE IF StartsWith(r, ".") /\ ip # "" THEN Tail(r)
       ELSE r)

FloatUnsigned(sg, u) ==
  IF u \in {"inf", "infinity"} THEN Inf(sg)
  ELSE IF u = "nan" THEN NaN
  ELSE FloatPoint(sg, DigitPrefix(u), Drop(u, Len(DigitPrefix(u))))

PyFloat(s0) ==
  LET s == Strip(s0)
  IN FloatUnsigned(IF StartsWith(s, "-") THEN -1 ELSE 1,
                   IF StartsWith(s, "-") \/ StartsWith(s, "+") THEN Tail(s) ELSE s)

(***************************************************************************)
(* parse_duration                                                          *)
(***************************************************************************)
NoMatch == [ok |-> FALSE, a |-> "", b |-> ""]

\* ^(\d+)\s*minutes?\s*(\d+)\s*<secWords>$ ; a and b are the groups
MatchMinSecMinute(a, r3, secWords) ==
  LET b == DigitPrefix(r3)
  IN IF b # "" /\ LStrip(Drop(r3, Len(b))) \in secWords
     THEN [ok |-> TRUE, a |-> a, b |-> b]
     ELSE NoMatch

MatchMinSec(s, secWords) ==
  LET a == DigitPrefix(s)
      r1 == LStrip(Drop(s, Len(a)))
  IN IF a # "" /\ StartsWith(r1, "minute")
     THEN MatchMinSecMinute(a, LStrip(Drop(r1, IF StartsWith(r1, "minutes") THEN 7 ELSE 6)), secWords)
     ELSE NoMatch

\* ^(\d+),(\d{1,2})$
MatchFrenchTime(s) ==
  LET a == DigitPrefix(s)
      r == Drop(s, Len(a))
  IN IF a # "" /\ StartsWith(r, ",") /\ AllDigits(Tail(r)) /\ Len(Tail(r)) <= 2
     THEN [ok |-> TRUE, a |-> a, b |-> Tail(r)]
     ELSE NoMatch

\* ^(\d+)\s*(?:mn|m)\s*(\d+)$
MatchShorthandDigits(a, r1) ==
  IF a # "" /\ StartsWith(r1, "mn") /\ AllDigits(LStrip(Drop(r1, 2)))
  THEN [ok |-> TRUE, a |-> a, b |-> LStrip(Drop(r1, 2))]
  ELSE IF a # "" /\ StartsWith(r1, "m") /\ AllDigits(LStrip(Drop(r1, 1)))
  THEN [ok |-> TRUE, a |-> a, b |-> LStrip(Drop(r1, 1))]
  ELSE NoMatch

MatchShorthand(s) == MatchShorthandDigits(DigitPrefix(s), LStrip(Drop(s, Len(DigitPrefix(s)))))

\* ^(\d+(?:[.,]\d+)?)\s*(?:<units>)$ ; a is group 1 with ',' replaced by '.'
MatchNumUnitDigits(ip, r, units) ==
  LET fp == IF r # "" /\ Head(r) \in {".", ","} THEN DigitPrefix(Tail(r)) ELSE ""
  IN IF ip = "" THEN NoMatch
     ELSE IF fp # "" /\ LStrip(Drop(r, 1 + Len(fp))) \in units
     THEN [ok |-> TRUE, a |-> ip \o "." \o fp, b |-> ""]
     ELSE IF fp = "" /\ LStrip(r) \in units
     THEN [ok |-> TRUE, a |-> ip, b |-> ""]
     ELSE NoMatch

MatchNumUnit(s, units) == MatchNumUnitDigits(DigitPrefix(s), Drop(s, Len(DigitPrefix(s))), units)

\* the replacements of a chain of str.replace calls, applied in order
RECURSIVE ReplaceAll(_, _)
ReplaceAll(s, pairs) ==
  IF pairs = <<>> THEN s
  ELSE ReplaceAll(Replace(s, Head(pairs)[1], Head(pairs)[2]), Tail(pairs))

\* lines 180-195: unit words to ':' or nothing, quotes, repeated separators
CleanDuration(s0) ==
  StripCh(CollapseColons(Strip(CollapseSpaces(
    ReplaceAll(
      Strip(ReplaceAll(s0,
        << <<",", ".">>,
           <<"seconds", "">>, <<"second", "">>,
           <<"secondes", "">>, <<"seconde", "">>,
           <<"minutes", ":">>, <<"minute", ":">>,
           <<"mins", ":">>, <<"min", ":">>,
           <<"sec", "">>, <<"secs", "">>,
           <<"and", "">>, <<"et", "">> >>)),
      << <<"'", ":">>, <<"\"", "">> >>)))), ":")

\* [p.strip() for p in parts if p.strip()]
RECURSIVE StripParts(_)
StripParts(ps) ==
  IF ps = <<>> THEN <<>>
  ELSE IF Strip(Head(ps)) = "" THEN StripParts(Tail(ps))
  ELSE <<Strip(Head(ps))>> \o StripParts(Tail(ps))

\* a bare number up to 10 read as minutes
ParsedValue_by_magnitude(value) ==
  IF value = Err THEN None
  ELSE IF IsNum(value) /\ XLe(value, Int2Num(10)) THEN XMul(value, Int2Num(60))
  ELSE value

\* the try block, lines 197-212: a ValueError of float() gives None
ParsedValue(value) == IF value = Err THEN None ELSE value

ParsedMinutesSeconds(minutes, seconds) ==
  IF minutes = Err \/ seconds = Err THEN None
  ELSE XAdd(XMul(minutes, Int2Num(60)), seconds)

ParsedParts(parts) ==
  IF Len(parts) = 2 THEN ParsedMinutesSeconds(PyFloat(parts[1]), PyFloat(parts[2]))
  ELSE IF Len(parts) = 1 THEN ParsedValue(PyFloat(parts[1]))
  ELSE None

ParseCleaned(s) ==
  IF Contains(s, ":") THEN ParsedParts(StripParts(Split(s, ":")))
  ELSE ParsedValue(PyFloat(IF Contains(s, " ") THEN FirstWord(s) ELSE s))

\* minutes * 60 + seconds of a match
MinSec(m) == Int2Num(ToInt(m.a) * 60 + ToInt(m.b))

\* the matches of parse_duration in the order it tries them, each tried when
\* the one before failed
secs_only_match(s, m) ==
  IF m.ok THEN PyFloat(m.a) ELSE ParseCleaned(CleanDuration(s))

mins_only_match(s, m) ==
  IF m.ok THEN XMul(PyFloat(m.a), Int2Num(60))
  ELSE secs_only_match(s, MatchNumUnit(s,
         {"secondes", "seconde", "seconds", "second", "secs", "sec", "s"}))

shorthand_match(s, m) ==
  IF m.ok THEN MinSec(m) ELSE mins_only_match(s, MatchNumUnit(s,
                        {"minutes", "minute", "mins", "min", "mn", "m"}))

french_time_match(s, m) ==
  IF m.ok THEN MinSec(m) ELSE shorthand_match(s, MatchShorthand(s))

eng_full_match(s, m) ==
  IF m.ok THEN MinSec(m) ELSE french_time_match(s, MatchFrenchTime(s))

french_full_match(s, m) ==
  IF m.ok THEN MinSec(m) ELSE eng_full_match(s, MatchMinSec(s, {"second", "seconds"}))

\* the keyword of the alternative protocol taken only as the whole answer
ParseLowered_whole_answer(s) ==
  IF s \in {"door", "diab"} THEN None
  ELSE french_full_match(s, MatchMinSec(s, {"seconde", "secondes"}))

ParseLowered(s) ==
  IF Contains(s, "door") \/ Contains(s, "diab") THEN None
  ELSE french_full_match(s, MatchMinSec(s, {"seconde", "secondes"}))

parse_duration(duration_str) == ParseLowered(Lower(Strip(duration_str)))

(***************************************************************************)
(* Formatting, guideline tables                                            *)
(***************************************************************************)
\* str(i) for an integer
RECURSIVE NatToStr(_)
NatToStr(i) == IF i < 10 THEN Ch(DIGITS, i + 1) ELSE NatToStr(i \div 10) \o Ch(DIGITS, (i % 10) + 1)

IntToStr(i) == IF i < 0 THEN "-" \o NatToStr(-i) ELSE NatToStr(i)

\* a raised exception, where a string is expected
Raise == "<raise>"

\* the calculation field of a GradeResult built without one
NoCalc == "<None>"

\* int() of an infinity or a NaN raises; so every non-finite argument raises
FormatMinutes(seconds, mins) ==
  LET secs == Trunc(XSub(seconds, Int2Num(60 * mins)))
  IN IF secs = 0
     THEN IntToStr(mins) \o " minute" \o (IF mins # 1 THEN "s" ELSE "")
     ELSE IntToStr(mins) \o ":" \o (IF secs < 10 THEN "0" ELSE "") \o IntToStr(secs)

\* the whole minutes only, from one minute on
format_duration_whole_minutes(seconds) ==
  IF ~IsNum(seconds) THEN Raise
  ELSE IF XLt(seconds, Int2Num(60)) THEN IntToStr(Trunc(seconds)) \o " seconds"
  ELSE IntToStr(Floor(XDiv(seconds, Int2Num(60)))) \o " minutes"

format_duration(seconds) ==
  IF ~IsNum(seconds) THEN Raise
  ELSE IF XLt(seconds, Int2Num(60)) THEN IntToStr(Trunc(seconds)) \o " seconds"
  ELSE FormatMinutes(seconds, Floor(XDiv(seconds, Int2Num(60))))

\* ((new - old) / old) * 100 in double arithmetic is not always the exact
\* percentage p: these are the p, in hundredths, that it lands above, and
\* below, among the multiples of 0.05 that answers in half seconds yield
PctRoundedUp ==
  { 175, 350, 700, 1375, 1400, 2725, 2750, 2775, 2800, 5450, 5500, 5550,
    5600, 11000, 12250, 20750, 22000, 23250, 24500, 44000, 49000, 83000,
    88000, 93000, 98000 }

PctRoundedDown ==
  { 725, 1425, 1450, 2825, 2850, 2875, 2900, 5125, 5650, 5700, 5750, 5800,
    10250, 11500, 12750, 20500, 21750, 23000, 24250, 25500, 41000, 46000,
    51000, 82000, 87000, 92000, 97000, 102000 }

PctExact(old_value, new_value) ==
  XMul(XDiv(XSub(new_value, old_value), old_value), Int2Num(100))

\* a percentage that starts again from 0 above 26
PctWrapped(exact) ==
  IF XLt(Int2Num(26), exact) THEN XSub(exact, Int2Num(26)) ELSE exact

calculate_percentage_increase_wrapped(old_value, new_value) ==
  IF XEq(old_value, Int2Num(0)) THEN Int2Num(0)
  ELSE PctWrapped(PctExact(old_value, new_value))

\* the increase as a share of the new value
calculate_percentage_increase_of_new(old_value, new_value) ==
  IF XEq(new_value, Int2Num(0)) THEN Int2Num(0)
  ELSE XMul(XDiv(XSub(new_value, old_value), new_value), Int2Num(100))

\* the double nearest to an exact percentage, with the side it falls on
PctRounded(exact) ==
  LET h == IF IsNum(exact) /\ (100 * exact.n) % exact.d = 0
           THEN (100 * exact.n) \div exact.d ELSE -1
  IN IF h \in PctRoundedUp THEN [exact EXCEPT !.e = 1]
     ELSE IF h \in PctRoundedDown THEN [exact EXCEPT !.e = -1]
     ELSE exact

calculate_percentage_increase(old_value, new_value) ==
  IF XEq(old_value, Int2Num(0)) THEN Int2Num(0)
  ELSE PctRounded(PctExact(old_value, new_value))

\* f"{x:.1f}": one decimal, ties to even; a double just off a tie goes its way
Fmt1f(x) ==
  IF x.k = "nan" THEN "nan"
  ELSE IF x.k = "inf" THEN (IF x.n < 0 THEN "-inf" ELSE "inf")
  ELSE LET a == Abs(x.n) * 10
           q == a \div x.d
           rem2 == 2 * (a % x.d)
           r == IF rem2 > x.d \/ (rem2 = x.d /\ (x.e > 0 \/ (x.e = 0 /\ q % 2 = 1)))
                THEN q + 1 ELSE q
       IN (IF x.n < 0 THEN "-" ELSE "") \o NatToStr(r \div 10) \o "." \o NatToStr(r % 10)

\* the band of the long durations for every duration
get_guideline_range_long(duration_seconds) ==
  [min |-> Int2Num(5), max |-> Int2Num(10)]

\* the short band up to and including 120 s
get_guideline_range_inclusive(duration_seconds) ==
  IF XLe(duration_seconds, Int2Num(120))
  THEN [min |-> Int2Num(10), max |-> Int2Num(20)]
  ELSE [min |-> Int2Num(5), max |-> Int2Num(10)]

get_guideline_range(duration_seconds) ==
  IF XLt(duration_seconds, Int2Num(120))
  THEN [min |-> Int2Num(10), max |-> Int2Num(20)]
  ELSE [min |-> Int2Num(5), max |-> Int2Num(10)]

\* the buckets with 300 s left in the lower one
get_warmup_range_inclusive(duration_seconds) ==
  IF XLt(duration_seconds, Int2Num(60)) THEN [min |-> 7, max |-> 9]
  ELSE IF XLe(duration_seconds, Int2Num(300)) THEN [min |-> 4, max |-> 7]
  ELSE IF XLt(duration_seconds, Int2Num(900)) THEN [min |-> 1, max |-> 5]
  ELSE [min |-> 1, max |-> 2]

get_warmup_range(duration_seconds) ==
  IF XLt(duration_seconds, Int2Num(60)) THEN [min |-> 7, max |-> 9]
  ELSE IF XLt(duration_seconds, Int2Num(300)) THEN [min |-> 4, max |-> 7]
  ELSE IF XLt(duration_seconds, Int2Num(900)) THEN [min |-> 1, max |-> 5]
  ELSE [min |-> 1, max |-> 2]

(***************************************************************************)
(* GradeResult.  feedback is the name of the branch taken, with the        *)
(* values the feedback text interpolates; Raised stands for a grader that  *)
(* raises instead of returning.                                            *)
(***************************************************************************)
GradeResult(ok, fb, calc, conf) ==
  [exc |-> FALSE, is_correct |-> ok, feedback |-> fb, calculation |-> calc, confidence |-> conf]

Raised ==
  [exc |-> TRUE, is_correct |-> FALSE, feedback |-> Raise, calculation |-> Raise, confidence |-> Raise]

\* a result whose calculation string or feedback needed a value that raised
Checked(r) == IF r.calculation = Raise \/ r.feedback = Raise THEN Raised ELSE r

\* concatenation of strings that propagates a raised exception
Cat(parts) ==
  IF \E i \in 1..Len(parts) : parts[i] = Raise THEN Raise
  ELSE LET RECURSIVE Join(_)
           Join(ps) == IF ps = <<>> THEN "" ELSE Head(ps) \o Join(Tail(ps))
       IN Join(parts)

\* a <= x <= b
Between(a, x, b) == XLe(a, x) /\ XLe(x, b)

(***************************************************************************)
(* Maisie (q1-q4)                                                          *)
(***************************************************************************)
\* A grader of a duration question is written in two parts: the parsing of
\* the answers it reads, and the grading of the parsed durations.
q1_graded(duration) ==
  LET confidence ==
        IF Between(Int2Num(4), duration, Int2Num(6)) THEN "review"
        ELSE IF Between(Int2Num(9), duration, Int2Num(11)) THEN "review"
        ELSE IF Between(Int2Num(19), duration, Int2Num(22)) THEN "review"
        ELSE IF Between(Int2Num(41), duration, Int2Num(45)) THEN "review"
        ELSE "high"
  IN IF duration = None THEN GradeResult(FALSE, "q1:diab", NoCalc, "high")
     ELSE IF XLe(duration, Int2Num(4)) THEN GradeResult(FALSE, "q1:under5", NoCalc, confidence)
     ELSE IF XLe(duration, Int2Num(9)) THEN GradeResult(FALSE, "q1:cautious", NoCalc, confidence)
     ELSE IF XLe(duration, Int2Num(16)) THEN GradeResult(TRUE, "q1:excellent", NoCalc, confidence)
     ELSE IF XLe(duration, Int2Num(19)) THEN GradeResult(TRUE, "q1:nice", NoCalc, confidence)
     ELSE IF XEq(duration, Int2Num(20)) THEN GradeResult(TRUE, "q1:at20", NoCalc, confidence)
     ELSE IF XLe(duration, Int2Num(43)) THEN GradeResult(FALSE, "q1:pushy", NoCalc, confidence)
     ELSE GradeResult(FALSE, "q1:lookagain", NoCalc, confidence)

grade_maisie_q1(answer) == q1_graded(parse_duration(answer))

q2_graded(new_duration, old_duration) ==
  LET increase_pct == calculate_percentage_increase(old_duration, new_duration)
      rng == get_guideline_range(old_duration)
      min_pct == rng.min
      max_pct == rng.max
      calc_str == Cat(<<"Your Plan 1: ", format_duration(old_duration), " -> Plan 2: ",
                        format_duration(new_duration), " = ", Fmt1f(increase_pct), "% increase">>)
      confidence ==
        IF XLe(XAbs(XSub(increase_pct, min_pct)), Int2Num(2)) THEN "review"
        ELSE IF XLe(XAbs(XSub(increase_pct, max_pct)), Int2Num(2)) THEN "review"
        ELSE IF XLt(Int2Num(20), increase_pct) /\ XLe(increase_pct, Int2Num(23)) THEN "review"
        ELSE "high"
  IN IF old_duration = None \/ new_duration = None
     THEN GradeResult(FALSE, "q2:provide", NoCalc, "high")
     ELSE IF XLe(new_duration, old_duration)
     THEN Checked(GradeResult(FALSE, "q2:nodrop",
            Cat(<<"Your Plan 1: ", format_duration(old_duration), " -> Plan 2: ",
                  format_duration(new_duration), " (decrease)">>), "high"))
     ELSE IF calc_str = Raise THEN Raised
     ELSE IF XLt(increase_pct, min_pct)
     THEN GradeResult(FALSE, "q2:conservative " \o Fmt1f(increase_pct), calc_str, confidence)
     ELSE IF XLe(increase_pct, XAdd(max_pct, Num(5, 10)))
     THEN GradeResult(TRUE, "q2:welldone " \o Fmt1f(increase_pct), calc_str, confidence)
     ELSE IF XLe(increase_pct, Int2Num(25))
     THEN GradeResult(FALSE, "q2:littleover " \o Fmt1f(increase_pct), calc_str, confidence)
     ELSE GradeResult(FALSE, "q2:toohigh " \o Fmt1f(increase_pct), calc_str, confidence)

grade_maisie_q2(answer, q1_answer) ==
  q2_graded(parse_duration(answer), parse_duration(q1_answer))

q3_graded(new_duration, old_duration) ==
  LET increase_pct == calculate_percentage_increase(old_duration, new_duration)
      rng == get_guideline_range(old_duration)
      min_pct == rng.min
      max_pct == rng.max
      calc_str == Cat(<<"Your Plan 2: ", format_duration(old_duration), " -> Plan 3: ",
                        format_duration(new_duration), " = ", Fmt1f(increase_pct), "% increase">>)
      confidence ==
        IF XLe(XAbs(XSub(increase_pct, min_pct)), Int2Num(2)) THEN "review"
        ELSE IF XLe(XAbs(XSub(increase_pct, max_pct)), Int2Num(2)) THEN "review"
        ELSE IF XLt(Int2Num(20), increase_pct) /\ XLe(increase_pct, Int2Num(23)) THEN "review"
        ELSE "high"
  IN IF old_duration = None \/ new_duration = None
     THEN GradeResult(FALSE, "q3:provide", NoCalc, "high")
     ELSE IF XLe(new_duration, old_duration)
     THEN Checked(GradeResult(FALSE, "q3:nodrop",
            Cat(<<"Your Plan 2: ", format_duration(old_duration), " -> Plan 3: ",
                  format_duration(new_duration), " (decrease)">>), "high"))
     ELSE IF calc_str = Raise THEN Raised
     ELSE IF XLt(increase_pct, min_pct)
     THEN GradeResult(FALSE, "q3:conservative " \o Fmt1f(increase_pct), calc_str, confidence)
     ELSE IF XLe(increase_pct, XAdd(max_pct, Num(5, 10)))
     THEN GradeResult(TRUE, "q3:welldone " \o Fmt1f(increase_pct), calc_str, confidence)
     ELSE IF XLe(increase_pct, Int2Num(25))
     THEN GradeResult(FALSE, "q3:littleover " \o Fmt1f(increase_pct), calc_str, confidence)
     ELSE GradeResult(FALSE, "q3:toohigh " \o Fmt1f(increase_pct), calc_str, confidence)

grade_maisie_q3(answer, q2_answer) ==
  q3_graded(parse_duration(answer), parse_duration(q2_answer))

grade_maisie_q4(answer) ==
  LET answer_lower == Strip(Lower(answer))
  IN IF Contains(answer_lower, "door") \/ Contains(answer_lower, "diab")
     THEN GradeResult(TRUE, "q4:diab", NoCalc, "high")
     ELSE GradeResult(FALSE, "q4:consider", NoCalc, "high")

(***************************************************************************)
(* Minna (q5-q8)                                                           *)
(***************************************************************************)
grade_minna_q5(answer) ==
  IF parse_duration(answer) = None THEN GradeResult(TRUE, "q5:diab", NoCalc, "high")
  ELSE GradeResult(FALSE, "q5:where", NoCalc, "high")

q6_graded(duration, q5_duration) ==
  LET q5_was_diab == q5_duration = None
      increase_pct == calculate_percentage_increase(q5_duration, duration)
      ecf_confidence ==
        IF XLe(XAbs(XSub(increase_pct, Int2Num(10))), Int2Num(2)) \/ XLe(XAbs(XSub(increase_pct, Int2Num(20))), Int2Num(2))
        THEN "review" ELSE "high"
      confidence ==
        IF Between(Int2Num(2), duration, Int2Num(4)) THEN "review"
        ELSE IF Between(Int2Num(6), duration, Int2Num(8)) THEN "review"
        ELSE "high"
  IN IF duration = None
     THEN (IF q5_was_diab THEN GradeResult(TRUE, "q6:keptdiab", NoCalc, "high")
           ELSE GradeResult(FALSE, "q6:provide", NoCalc, "high"))
     ELSE IF /\ ~q5_was_diab
             /\ Truthy(q5_duration) /\ XLt(Int2Num(0), duration)
             /\ Between(Int2Num(10), increase_pct, Num(205, 10))
     THEN Checked(GradeResult(TRUE, "q6:ecf " \o Fmt1f(increase_pct),
            Cat(<<"Plan 1: ", format_duration(q5_duration), " -> Plan 2: ",
                  format_duration(duration)>>), ecf_confidence))
     ELSE IF XLt(duration, Int2Num(3)) THEN GradeResult(FALSE, "q6:under3", NoCalc, confidence)
     ELSE IF XLe(duration, Int2Num(6)) THEN GradeResult(TRUE, "q6:nice", NoCalc, confidence)
     ELSE IF XEq(duration, Int2Num(7)) THEN GradeResult(FALSE, "q6:seven", NoCalc, confidence)
     ELSE GradeResult(FALSE, "q6:toobig", NoCalc, confidence)

grade_minna_q6(answer, q5_answer) ==
  q6_graded(parse_duration(answer), parse_duration(q5_answer))

q7_graded(new_duration, old_duration) ==
  LET diab_confidence ==
        IF Truthy(new_duration) /\ Between(Int2Num(4), new_duration, Int2Num(7)) THEN "review" ELSE "high"
      increase_pct == calculate_percentage_increase(old_duration, new_duration)
      rng == get_guideline_range(old_duration)
      min_pct == rng.min
      max_pct == rng.max
      calc_str == Cat(<<"Your Plan 2: ", format_duration(old_duration), " -> Plan 3: ",
                        format_duration(new_duration), " = ", Fmt1f(increase_pct), "% increase">>)
      confidence ==
        IF XLe(old_duration, Int2Num(6)) /\ Between(Int2Num(7), new_duration, Int2Num(9)) THEN "review"
        ELSE IF \/ XLe(XAbs(XSub(increase_pct, min_pct)), Int2Num(2))
                \/ XLe(XAbs(XSub(increase_pct, max_pct)), Int2Num(2))
        THEN "review" ELSE "high"
  IN IF old_duration = None
     THEN (IF Truthy(new_duration) /\ Between(Int2Num(5), new_duration, Int2Num(6))
           THEN GradeResult(TRUE, "q7:afterdiab", NoCalc, diab_confidence)
           ELSE IF Truthy(new_duration) /\ XLt(new_duration, Int2Num(5))
           THEN GradeResult(FALSE, "q7:under5", NoCalc, diab_confidence)
           ELSE GradeResult(FALSE, "q7:toobigafterdiab", NoCalc, diab_confidence))
     ELSE IF new_duration = None THEN GradeResult(FALSE, "q7:provide", NoCalc, "high")
     ELSE IF XLe(new_duration, old_duration)
     THEN GradeResult(FALSE, "q7:increase", NoCalc, "high")
     ELSE IF calc_str = Raise THEN Raised
     ELSE IF XLe(old_duration, Int2Num(6)) /\ XLe(new_duration, Int2Num(8))
     THEN GradeResult(TRUE, "q7:short", calc_str, confidence)
     ELSE IF XLt(increase_pct, XSub(min_pct, Int2Num(2)))
     THEN GradeResult(FALSE, "q7:conservative " \o Fmt1f(increase_pct), calc_str, confidence)
     ELSE IF XLe(increase_pct, XAdd(max_pct, Int2Num(5)))
     THEN GradeResult(TRUE, "q7:nice", calc_str, confidence)
     ELSE GradeResult(FALSE, "q7:jump " \o Fmt1f(increase_pct), calc_str, confidence)

grade_minna_q7(answer, q6_answer) ==
  q7_graded(parse_duration(answer), parse_duration(q6_answer))

\* re.findall(r'\d+', s): the first match, or "" when there is none
RECURSIVE FirstDigits(_)
FirstDigits(s) ==
  IF s = "" THEN ""
  ELSE IF IsDigit(Head(s)) THEN DigitPrefix(s)
  ELSE FirstDigits(Tail(s))

\* re.findall(r'(\d+(?:\.\d+)?)\s*%?', s): the first match, or ""
RECURSIVE FirstDecimal(_)
FirstDecimal(s) ==
  IF s = "" THEN ""
  ELSE IF IsDigit(Head(s))
  THEN LET ip == DigitPrefix(s)
           r == Drop(s, Len(ip))
       IN IF StartsWith(r, ".") /\ DigitPrefix(Tail(r)) # ""
          THEN ip \o "." \o DigitPrefix(Tail(r)) ELSE ip
  ELSE FirstDecimal(Tail(s))

grade_minna_q8(answer) ==
  LET answer_lower == Strip(Lower(answer))
      numbers == FirstDecimal(answer_lower)
      pct == PyFloat(numbers)
  IN IF Contains(answer_lower, "minute") \/ Contains(answer_lower, ":")
     THEN GradeResult(FALSE, "q8:duration", NoCalc, "high")
     ELSE IF numbers # ""
     THEN (IF XLt(Int2Num(10), pct) /\ XLe(pct, Int2Num(20)) THEN GradeResult(TRUE, "q8:excellent", NoCalc, "high")
           ELSE IF XLe(pct, Int2Num(10)) THEN GradeResult(FALSE, "q8:low", NoCalc, "high")
           ELSE GradeResult(FALSE, "q8:high", NoCalc, "high"))
     ELSE IF \E word \in {"higher", "more", "15", "20", "push"} : Contains(answer_lower, word)
     THEN GradeResult(TRUE, "q8:keyword", NoCalc, "high")
     ELSE GradeResult(FALSE, "q8:generic", NoCalc, "high")

(***************************************************************************)
(* Oliver (q9-q12)                                                         *)
(***************************************************************************)
q9_graded(duration) ==
  LET minutes == XDiv(duration, Int2Num(60))
      confidence ==
        IF Between(Num(375, 100), minutes, Num(425, 100)) THEN "review"
        ELSE IF Between(Num(59, 10), minutes, Num(63, 10)) THEN "review"
        ELSE "high"
  IN IF duration = None THEN GradeResult(FALSE, "q9:diab", NoCalc, "high")
     ELSE IF XLt(minutes, Int2Num(1)) THEN GradeResult(FALSE, "q9:under1", NoCalc, confidence)
     ELSE IF XLt(minutes, Int2Num(4)) THEN GradeResult(FALSE, "q9:under4", NoCalc, confidence)
     ELSE IF XLt(minutes, Num(475, 100)) THEN GradeResult(TRUE, "q9:cautious", NoCalc, confidence)
     ELSE IF XLe(minutes, Num(55, 10)) THEN GradeResult(TRUE, "q9:excellent", NoCalc, confidence)
     ELSE IF XLe(minutes, Num(615, 100)) THEN GradeResult(TRUE, "q9:shaved", NoCalc, confidence)
     ELSE IF XLe(minutes, Num(625, 100)) THEN GradeResult(FALSE, "q9:littlehigh", NoCalc, confidence)
     ELSE GradeResult(FALSE, "q9:toohigh", NoCalc, confidence)

grade_oliver_q9(answer) == q9_graded(parse_duration(answer))

q10_graded(new_duration, old_duration) ==
  LET increase_pct == calculate_percentage_increase(old_duration, new_duration)
      calc_str == Cat(<<"Your Plan 1: ", format_duration(old_duration), " -> Plan 2: ",
                        format_duration(new_duration), " = ", Fmt1f(increase_pct), "% increase">>)
      confidence ==
        IF XLe(XAbs(XSub(increase_pct, Int2Num(5))), Int2Num(2)) THEN "review"
        ELSE IF XLe(XAbs(XSub(increase_pct, Int2Num(10))), Int2Num(2)) THEN "review"
        ELSE IF XLt(Int2Num(10), increase_pct) /\ XLe(increase_pct, Int2Num(13)) THEN "review"
        ELSE "high"
  IN IF old_duration = None \/ new_duration = None
     THEN GradeResult(FALSE, "q10:provide", NoCalc, "high")
     ELSE IF XLe(new_duration, old_duration)
     THEN Checked(GradeResult(FALSE, "q10:increase",
            Cat(<<"Your Plan 1: ", format_duration(old_duration), " -> Plan 2: ",
                  format_duration(new_duration)>>), "high"))
     ELSE IF calc_str = Raise THEN Raised
     ELSE IF XLt(increase_pct, Int2Num(4))
     THEN GradeResult(FALSE, "q10:conservative " \o Fmt1f(increase_pct), calc_str, confidence)
     ELSE IF XLe(increase_pct, Num(105, 10))
     THEN GradeResult(TRUE, "q10:excellent " \o Fmt1f(increase_pct), calc_str, confidence)
     ELSE IF XLe(increase_pct, Int2Num(15))
     THEN GradeResult(FALSE, "q10:tadhigh " \o Fmt1f(increase_pct), calc_str, confidence)
     ELSE GradeResult(FALSE, "q10:toohigh " \o Fmt1f(increase_pct), calc_str, confidence)

grade_oliver_q10(answer, q9_answer) ==
  q10_graded(parse_duration(answer), parse_duration(q9_answer))

\* q11 accepting only the q9 duration itself
q11_exact(new_duration, q9_duration, q10_duration) ==
  IF new_duration = None THEN GradeResult(FALSE, "q11:provide", NoCalc, "high")
  ELSE IF Truthy(q10_duration) /\ XLe(q10_duration, new_duration)
  THEN GradeResult(FALSE, "q11:stickorpush", NoCalc, "high")
  ELSE IF Truthy(q9_duration) /\ XEq(new_duration, q9_duration)
  THEN GradeResult(TRUE, "q11:dropback", NoCalc, "high")
  ELSE GradeResult(FALSE, "q11:needdrop", NoCalc, "high")

grade_oliver_q11_exact(answer, q9_answer, q10_answer) ==
  q11_exact(parse_duration(answer), parse_duration(q9_answer), parse_duration(q10_answer))

q11_graded(new_duration, q9_duration, q10_duration) ==
  LET diff == XAbs(XSub(new_duration, q9_duration))
      confidence == IF Between(Int2Num(3), diff, Int2Num(8)) THEN "review" ELSE "high"
  IN IF new_duration = None THEN GradeResult(FALSE, "q11:provide", NoCalc, "high")
     ELSE IF Truthy(q10_duration) /\ XLe(q10_duration, new_duration)
     THEN GradeResult(FALSE, "q11:stickorpush", NoCalc, "high")
     ELSE IF Truthy(q9_duration)
     THEN (IF XLe(diff, Int2Num(5)) THEN GradeResult(TRUE, "q11:dropback", NoCalc, confidence)
           ELSE IF XLt(new_duration, q9_duration)
           THEN Checked(GradeResult(FALSE,
                  Cat(<<"q11:wronganchor ", format_duration(q9_duration)>>), NoCalc, confidence))
           ELSE GradeResult(FALSE, "q11:notfirstdrop", NoCalc, confidence))
     ELSE GradeResult(FALSE, "q11:needdrop", NoCalc, "high")

grade_oliver_q11(answer, q9_answer, q10_answer) ==
  q11_graded(parse_duration(answer), parse_duration(q9_answer), parse_duration(q10_answer))

grade_oliver_q12(answer) ==
  LET answer_lower == Strip(Lower(answer))
      has(w) == Contains(answer_lower, w)
  IN IF has("decrease") \/ has("drop") \/ has("lower") \/ has("reduce")
     THEN GradeResult(TRUE, "q12:decrease", NoCalc, "high")
     ELSE IF has("key is a bore") \/ has("kiab") THEN GradeResult(FALSE, "q12:kiab", NoCalc, "high")
     ELSE IF has("increase") \/ has("same") THEN GradeResult(FALSE, "q12:increase", NoCalc, "high")
     ELSE IF has("bore") /\ (has("first") \/ has("try"))
     THEN GradeResult(TRUE, "q12:both", NoCalc, "high")
     ELSE GradeResult(FALSE, "q12:generic", NoCalc, "high")

(***************************************************************************)
(* Bella (q13-q16) and DIAB (q17)                                          *)
(***************************************************************************)
q13_graded(duration) ==
  LET minutes == XDiv(duration, Int2Num(60))
      confidence ==
        IF Between(Num(24, 10), minutes, Num(27, 10)) THEN "review"
        ELSE IF Between(Num(305, 100), minutes, Num(325, 100)) THEN "review"
        ELSE "high"
  IN IF duration = None THEN GradeResult(FALSE, "q13:diab", NoCalc, "high")
     ELSE IF XLt(minutes, Num(15, 10)) THEN GradeResult(FALSE, "q13:under90", NoCalc, confidence)
     ELSE IF XLt(minutes, Num(25, 10)) THEN GradeResult(FALSE, "q13:cautious", NoCalc, confidence)
     ELSE IF XLt(minutes, Num(267, 100)) THEN GradeResult(TRUE, "q13:shaved", NoCalc, confidence)
     ELSE IF XLe(minutes, Num(307, 100)) THEN GradeResult(TRUE, "q13:great", NoCalc, confidence)
     ELSE IF XLe(minutes, Num(315, 100)) THEN GradeResult(TRUE, "q13:good", NoCalc, confidence)
     ELSE IF XLe(minutes, Num(317, 100)) THEN GradeResult(TRUE, "q13:at310", NoCalc, confidence)
     ELSE IF XLe(minutes, Num(34, 10)) THEN GradeResult(FALSE, "q13:before", NoCalc, confidence)
     ELSE GradeResult(FALSE, "q13:lookagain", NoCalc, confidence)

grade_bella_q13(answer) == q13_graded(parse_duration(answer))

\* the count of a warmup answer: 0 for 'none' or '0', else its first integer,
\* else the given default (-1 standing for Python's None)
WarmupCount(answer, default) ==
  LET answer_lower == Strip(Lower(answer))
  IN IF Contains(answer_lower, "none") \/ answer_lower = "0" THEN 0
     ELSE IF FirstDigits(answer) # "" THEN ToInt(FirstDigits(answer))
     ELSE default

q13b_graded(warmups, q13_duration) ==
  LET rng == IF Truthy(q13_duration) THEN get_warmup_range(q13_duration)
             ELSE [min |-> 4, max |-> 7]
      span == Cat(<<IntToStr(rng.min), "-", IntToStr(rng.max)>>)
  IN IF warmups = -1 THEN GradeResult(FALSE, "q13b:provide", NoCalc, "high")
     ELSE IF warmups = 0 THEN GradeResult(FALSE, "q13b:none", NoCalc, "high")
     ELSE IF warmups < rng.min THEN GradeResult(FALSE, "q13b:low " \o span, NoCalc, "high")
     ELSE IF warmups <= rng.max THEN GradeResult(TRUE, "q13b:good", NoCalc, "high")
     ELSE GradeResult(FALSE, "q13b:outside " \o span, NoCalc, "high")

grade_bella_q13b(answer, q13_answer) ==
  q13b_graded(WarmupCount(answer, -1), parse_duration(q13_answer))

q14_graded(new_duration, old_duration) ==
  LET increase_pct == calculate_percentage_increase(old_duration, new_duration)
      rng == get_guideline_range(old_duration)
      min_pct == rng.min
      max_pct == rng.max
      under == IF XLt(old_duration, Int2Num(120)) THEN "under" ELSE "over"
      calc_str == Cat(<<"Your Plan 1: ", format_duration(old_duration), " -> Plan 2: ",
                        format_duration(new_duration), " = ", Fmt1f(increase_pct), "% increase">>)
      confidence ==
        IF XLe(XAbs(XSub(increase_pct, min_pct)), Int2Num(2)) THEN "review"
        ELSE IF XLe(XAbs(XSub(increase_pct, max_pct)), Int2Num(2)) THEN "review"
        ELSE IF XLt(max_pct, increase_pct) /\ XLe(increase_pct, XAdd(max_pct, Int2Num(3))) THEN "review"
        ELSE "high"
  IN IF old_duration = None \/ new_duration = None
     THEN GradeResult(FALSE, "q14:provide", NoCalc, "high")
     ELSE IF XLt(new_duration, old_duration)
     THEN Checked(GradeResult(FALSE, "q14:decrease",
            Cat(<<"Your Plan 1: ", format_duration(old_duration), " -> Plan 2: ",
                  format_duration(new_duration), " (decrease)">>), "high"))
     ELSE IF XEq(new_duration, old_duration)
     THEN Checked(GradeResult(FALSE, "q14:same",
            Cat(<<"Your Plan 1: ", format_duration(old_duration), " -> Plan 2: ",
                  format_duration(new_duration), " (same)">>), "high"))
     ELSE IF calc_str = Raise THEN Raised
     ELSE IF XLt(increase_pct, XSub(min_pct, Int2Num(1)))
     THEN GradeResult(FALSE, Cat(<<"q14:below ", Fmt1f(increase_pct), " ", under>>), calc_str, confidence)
     ELSE IF XLe(increase_pct, XAdd(max_pct, Num(5, 10)))
     THEN GradeResult(TRUE, "q14:nice", calc_str, confidence)
     ELSE IF XLe(increase_pct, XAdd(max_pct, Int2Num(3)))
     THEN GradeResult(FALSE, Cat(<<"q14:tadhigh ", Fmt1f(increase_pct), " ", under>>), calc_str, confidence)
     ELSE GradeResult(FALSE, "q14:toohigh " \o Fmt1f(increase_pct), calc_str, confidence)

grade_bella_q14(answer, q13_answer) ==
  q14_graded(parse_duration(answer), parse_duration(q13_answer))

grade_bella_q14b(answer, q13b_answer) ==
  LET new_warmups == WarmupCount(answer, -1)
      old_warmups == WarmupCount(q13b_answer, 7)
  IN IF new_warmups = -1 THEN GradeResult(FALSE, "q14b:provide", NoCalc, "high")
     ELSE IF new_warmups = 0 THEN GradeResult(TRUE, "q14b:removed", NoCalc, "high")
     ELSE IF new_warmups < old_warmups
     THEN (IF old_warmups - new_warmups >= 2 THEN GradeResult(TRUE, "q14b:fewer", NoCalc, "high")
           ELSE GradeResult(TRUE, "q14b:byone", NoCalc, "high"))
     ELSE GradeResult(FALSE, "q14b:notreduced", NoCalc, "high")

q15_graded(new_duration, old_duration) ==
  LET increase_pct == calculate_percentage_increase(old_duration, new_duration)
      rng == get_guideline_range(old_duration)
      min_pct == rng.min
      max_pct == rng.max
      under == IF XLt(old_duration, Int2Num(120)) THEN "under" ELSE "over"
      calc_str == Cat(<<"Your Plan 2: ", format_duration(old_duration), " -> Plan 3: ",
                        format_duration(new_duration), " = ", Fmt1f(increase_pct), "% increase">>)
      confidence ==
        IF XLe(XAbs(XSub(increase_pct, min_pct)), Int2Num(2)) THEN "review"
        ELSE IF XLe(XAbs(XSub(increase_pct, max_pct)), Int2Num(2)) THEN "review"
        ELSE IF XLt(max_pct, increase_pct) /\ XLe(increase_pct, XAdd(max_pct, Int2Num(3))) THEN "review"
        ELSE "high"
  IN IF old_duration = None \/ new_duration = None
     THEN GradeResult(FALSE, "q15:provide", NoCalc, "high")
     ELSE IF XLe(new_duration, old_duration)
     THEN Checked(GradeResult(FALSE, "q15:increase",
            Cat(<<"Your Plan 2: ", format_duration(old_duration), " -> Plan 3: ",
                  format_duration(new_duration)>>), "high"))
     ELSE IF calc_str = Raise THEN Raised
     ELSE IF XLt(increase_pct, XSub(min_pct, Int2Num(1)))
     THEN GradeResult(FALSE, Cat(<<"q15:below ", Fmt1f(increase_pct), " ", under>>), calc_str, confidence)
     ELSE IF XLe(increase_pct, XAdd(max_pct, Num(5, 10)))
     THEN GradeResult(TRUE, Cat(<<"q15:within ", Fmt1f(increase_pct), " ", under>>), calc_str, confidence)
     ELSE GradeResult(FALSE, "q15:toohigh " \o Fmt1f(increase_pct), calc_str, confidence)

grade_bella_q15(answer, q14_answer) ==
  q15_graded(parse_duration(answer), parse_duration(q14_answer))

grade_bella_q15b(answer, q14b_answer) ==
  LET new_warmups == WarmupCount(answer, -1)
      old_warmups == WarmupCount(q14b_answer, 0)
  IN IF new_warmups = -1 THEN GradeResult(FALSE, "q15b:provide", NoCalc, "high")
     ELSE IF new_warmups <= old_warmups THEN GradeResult(TRUE, "q15b:consistent", NoCalc, "high")
     ELSE GradeResult(FALSE, "q15b:addedback", NoCalc, "high")

\* re.findall(r'step\s*(\d+)', s): group 1 of the first match, or ""
RECURSIVE FirstStepNumber(_)
FirstStepNumber(s) ==
  IF s = "" THEN ""
  ELSE IF StartsWith(s, "step") /\ DigitPrefix(LStrip(Drop(s, 4))) # ""
  THEN DigitPrefix(LStrip(Drop(s, 4)))
  ELSE FirstStepNumber(Tail(s))

grade_bella_q16(answer) ==
  LET answer_lower == Strip(Lower(answer))
      has(w) == Contains(answer_lower, w)
      has_ciab == has("car is a bore") \/ has("ciab") \/ has("bore")
      has_intensity == has("further") \/ has("distance") \/ has("away") \/ has("intensity")
      mentions_starting_engine ==
        (has("start") /\ (has("engine") \/ has("car"))) \/ (has("turn") /\ has("on"))
      has_step == has("step")
      step_numbers == FirstStepNumber(answer_lower)
  IN IF has_ciab /\ has_step /\ step_numbers # ""
     THEN (IF ToInt(step_numbers) <= 7 THEN GradeResult(TRUE, "q16:step", NoCalc, "high")
           ELSE GradeResult(FALSE, "q16:enginestep", NoCalc, "high"))
     ELSE IF has_intensity /\ (has_ciab \/ has("car"))
     THEN GradeResult(TRUE, "q16:further", NoCalc, "high")
     ELSE IF has_ciab THEN GradeResult(TRUE, "q16:ciab", NoCalc, "high")
     ELSE IF (has("open") \/ has("door") \/ has("sit") \/ has("get in")) /\ has("car")
             /\ ~mentions_starting_engine
     THEN GradeResult(TRUE, "q16:steps", NoCalc, "high")
     ELSE IF has("assessment") THEN GradeResult(FALSE, "q16:assessment", NoCalc, "high")
     ELSE GradeResult(FALSE, "q16:generic", NoCalc, "high")

grade_diab_q17(answer) ==
  LET answer_lower == Strip(Lower(answer))
      numbers == FirstDigits(answer)
      reps == ToInt(numbers)
  IN IF numbers = ""
     THEN (IF Contains(answer_lower, "one") \/ Contains(answer_lower, "a rep")
              \/ Contains(answer_lower, "couple")
           THEN GradeResult(TRUE, "q17:couple", NoCalc, "high")
           ELSE GradeResult(FALSE, "q17:specify", NoCalc, "high"))
     ELSE IF reps = 0 THEN GradeResult(FALSE, "q17:zero", NoCalc, "high")
     ELSE IF reps <= 3 THEN GradeResult(TRUE, "q17:couple", NoCalc, "high")
     ELSE IF reps <= 4 THEN GradeResult(TRUE, "q17:notentire", NoCalc, "high")
     ELSE IF reps <= 10 THEN GradeResult(FALSE, "q17:fewer", NoCalc, "high")
     ELSE GradeResult(FALSE, "q17:notall10", NoCalc, "high")

(***************************************************************************)
(* normalize_duration_with_llm.  reply is what the external service        *)
(* answers for this text: a string, or Raise when the call fails.          *)
(***************************************************************************)
\* ^\d{1,2}:\d{2}$
IsMMSS(s) ==
  LET a == DigitPrefix(s)
      r == Drop(s, Len(a))
  IN Len(a) \in {1, 2} /\ StartsWith(r, ":") /\ AllDigits(Tail(r)) /\ Len(Tail(r)) = 2

\* ^\d+\s*minutes?\s*\d*\s*seconds?$
IsMinutesSeconds(s) ==
  LET a == DigitPrefix(s)
      r1 == LStrip(Drop(s, Len(a)))
      r2 == LStrip(IF StartsWith(r1, "minutes") THEN Drop(r1, 7) ELSE Drop(r1, 6))
      r3 == LStrip(Drop(r2, Len(DigitPrefix(r2))))
  IN a # "" /\ StartsWith(r1, "minute") /\ r3 \in {"second", "seconds"}

normalize_duration_with_llm(raw_answer, api_key, available, reply) ==
  LET raw_clean == Lower(Strip(raw_answer))
      result == Strip(reply)
  IN IF raw_answer = "" \/ Strip(raw_answer) = "" THEN raw_answer
     ELSE IF api_key = "" \/ ~available THEN raw_answer
     ELSE IF Contains(raw_clean, "door") \/ Contains(raw_clean, "diab") THEN raw_answer
     ELSE IF AllDigits(raw_clean) THEN raw_answer
     ELSE IF IsMMSS(raw_clean) THEN raw_answer
     ELSE IF IsMinutesSeconds(raw_clean) THEN raw_answer
     ELSE IF reply = Raise THEN raw_answer
     ELSE IF result = "DOOR" THEN "DOOR"
     ELSE IF result = "INVALID" THEN raw_answer
     ELSE IF PyFloat(Lower(result)) # Err THEN result
     ELSE raw_answer

(***************************************************************************)
(* grade_submission and determine_overall_grade.  A dict is a function     *)
(* from its keys; the result dict is the sequence of its (key, value)      *)
(* pairs in insertion order.                                               *)
(***************************************************************************)
duration_questions ==
  <<"q1", "q2", "q3", "q5", "q6", "q7", "q9", "q10", "q11", "q13", "q14", "q15">>

Range(seq) == {seq[i] : i \in 1..Len(seq)}

\* answers.get(q, '')
Get(answers, q) == IF q \in DOMAIN answers THEN answers[q] ELSE ""

\* lines 1367-1372: the copy, with the duration answers normalized
NormalizedAnswers(answers, api_key, available, replies) ==
  [q \in DOMAIN answers |->
     IF api_key # "" /\ q \in Range(duration_questions) /\ answers[q] # ""
     THEN normalize_duration_with_llm(answers[q], api_key, available, replies[q])
     ELSE answers[q]]

QuestionOrder ==
  <<"q1", "q2", "q3", "q4", "q5", "q6", "q7", "q8", "q9", "q10", "q11", "q12",
    "q13", "q13b", "q14", "q14b", "q15", "q15b", "q16", "q17">>

\* the grader call that grade_submission makes for question q (lines 1374-1402)
GraderCall(q, answers, normalized_answers) ==
  LET raw(x) == Get(answers, x)
      norm(x) == Get(normalized_answers, x)
  IN CASE q = "q1" -> grade_maisie_q1(norm("q1"))
       [] q = "q2" -> grade_maisie_q2(norm("q2"), norm("q1"))
       [] q = "q3" -> grade_maisie_q3(norm("q3"), norm("q2"))
       [] q = "q4" -> grade_maisie_q4(raw("q4"))
       [] q = "q5" -> grade_minna_q5(norm("q5"))
       [] q = "q6" -> grade_minna_q6(norm("q6"), norm("q5"))
       [] q = "q7" -> grade_minna_q7(norm("q7"), norm("q6"))
       [] q = "q8" -> grade_minna_q8(raw("q8"))
       [] q = "q9" -> grade_oliver_q9(norm("q9"))
       [] q = "q10" -> grade_oliver_q10(norm("q10"), norm("q9"))
       [] q = "q11" -> grade_oliver_q11(norm("q11"), norm("q9"), norm("q10"))
       [] q = "q12" -> grade_oliver_q12(raw("q12"))
       [] q = "q13" -> grade_bella_q13(norm("q13"))
       [] q = "q13b" -> grade_bella_q13b(raw("q13b"), norm("q13"))
       [] q = "q14" -> grade_bella_q14(norm("q14"), norm("q13"))
       [] q = "q14b" -> grade_bella_q14b(raw("q14b"), raw("q13b"))
       [] q = "q15" -> grade_bella_q15(norm("q15"), norm("q14"))
       [] q = "q15b" -> grade_bella_q15b(raw("q15b"), raw("q14b"))
       [] q = "q16" -> grade_bella_q16(raw("q16"))
       [] q = "q17" -> grade_diab_q17(raw("q17"))

\* the result dict as built, one (key, value) pair per question in order
GradeAll(answers, normalized_answers) ==
  [i \in 1..Len(QuestionOrder) |->
     <<QuestionOrder[i], GraderCall(QuestionOrder[i], answers, normalized_answers)>>]

\* raised: a grader raised and nothing is returned; else results is the dict
Returned(results) ==
  IF \E i \in 1..Len(results) : results[i][2].exc
  THEN [raised |-> TRUE, results |-> <<>>]
  ELSE [raised |-> FALSE, results |-> results]

grade_submission(answers, api_key, available, replies) ==
  Returned(GradeAll(answers, NormalizedAnswers(answers, api_key, available, replies)))

\* a dict with the given keys (a sequence) and values (a sequence)
Dict(keys, vals) == [q \in Range(keys) |-> vals[CHOOSE i \in 1..Len(keys) : keys[i] = q]]

question_labels ==
  Dict(<<"q1", "q2", "q3", "q4", "q5", "q6", "q7", "q8", "q9", "q10", "q11", "q12", "q13", "q13b", "q14", "q14b", "q15", "q15b", "q16", "q17">>,
       <<"Maisie's Plan 1 Target Duration",
         "Maisie's Plan 2 Target Duration",
         "Maisie's Plan 3 Target Duration",
         "Maisie After Struggle",
         "Minna's Plan 1 Target Duration",
         "Minna's Plan 2 Target Duration",
         "Minna's Plan 3 Target Duration",
         "Minna Target Duration Increase",
         "Oliver's Plan 1 Target Duration",
         "Oliver's Plan 2 Target Duration",
         "Oliver's Plan 3 Target Duration",
         "Oliver Keys Testing",
         "Bella's Plan 1 Target Duration",
         "Bella's Plan 1 Warmups",
         "Bella's Plan 2 Target Duration",
         "Bella's Plan 2 Warmups",
         "Bella's Plan 3 Target Duration",
         "Bella's Plan 3 Warmups",
         "Bella Car Protocol",
         "DIAB Warmups">>)

critical_questions == {"q1", "q5", "q9", "q13", "q4"}

\* lines 1439-1441
RECURSIVE IncorrectQuestions(_)
IncorrectQuestions(results) ==
  IF results = <<>> THEN <<>>
  ELSE LET q_id == Head(results)[1]
           result == Head(results)[2]
       IN (IF ~result.is_correct
           THEN << <<q_id, IF q_id \in DOMAIN question_labels THEN question_labels[q_id] ELSE q_id>> >>
           ELSE <<>>) \o IncorrectQuestions(Tail(results))

\* determine_overall_grade without the rule for critical questions
determine_overall_grade_by_count(results) ==
  LET incorrect_questions == IncorrectQuestions(results)
  IN [grade |-> IF Len(incorrect_questions) <= 2 THEN "Cleared" ELSE "Resubmit",
      resubmit |-> incorrect_questions]

\* determine_overall_grade listing only the critical questions on a resubmit
determine_overall_grade_critical_only(results) ==
  LET incorrect_questions == IncorrectQuestions(results)
      critical == SelectSeq(incorrect_questions, LAMBDA p : p[1] \in critical_questions)
  IN IF Len(incorrect_questions) = 0 THEN [grade |-> "Cleared", resubmit |-> <<>>]
     ELSE IF Len(incorrect_questions) <= 2 /\ critical = <<>>
     THEN [grade |-> "Cleared", resubmit |-> incorrect_questions]
     ELSE [grade |-> "Resubmit", resubmit |-> critical]

determine_overall_grade(results) ==
  LET incorrect_questions == IncorrectQuestions(results)
      critical_errors ==
        {i \in 1..Len(incorrect_questions) : incorrect_questions[i][1] \in critical_questions}
  IN IF Len(incorrect_questions) = 0 THEN [grade |-> "Cleared", resubmit |-> <<>>]
     ELSE IF Len(incorrect_questions) <= 2
     THEN (IF critical_errors # {}
           THEN [grade |-> "Resubmit", resubmit |-> incorrect_questions]
           ELSE [grade |-> "Cleared", resubmit |-> incorrect_questions])
     ELSE [grade |-> "Resubmit", resubmit |-> incorrect_questions]

(***************************************************************************)
(* State.  answers is the answer map of the selected submission, results   *)
(* and verdict what the last grading stored; target is the question whose  *)
(* grader is called, "all" for a whole grading pass.  step and phase       *)
(* belong to the sweep of a grader over increasing durations.  history     *)
(* lists the grading passes of the session: the answers each was given and *)
(* what grade_submission returned.  api_key is the key the normalizer is    *)
(* given, "" when none is configured (app.py calls grade_submission with   *)
(* none); normalized_answers is the copy of the answers that a pass in     *)
(* progress writes normalized values to, empty when a pass is modelled as  *)
(* one step.                                                               *)
(***************************************************************************)
VARIABLES answers, target, pc, results, verdict, step, phase, history,
          normalized_answers, api_key

vars == <<answers, target, pc, results, verdict, step, phase, history,
          normalized_answers, api_key>>

NoVerdict == [grade |-> "", resubmit |-> <<>>]

EmptyDict == [q \in {} |-> ""]

(***************************************************************************)
(* The submissions graded: for each case study the answers of the two      *)
(* recorded submissions of test_grading.py, a set of answers every grader  *)
(* accepts, blank answers, or no answers at all; one more with durations   *)
(* that float() reads as infinity and NaN.                                 *)
(***************************************************************************)
MaisieKeys == <<"q1", "q2", "q3", "q4">>

MaisieAnswers ==
  { Dict(MaisieKeys, <<"30 seconds", "35 seconds", "40 seconds", "DOOR">>),
    Dict(MaisieKeys, <<"10 seconds", "15 seconds", "20 seconds", "Door is a bore">>),
    Dict(MaisieKeys, <<"15", "17 seconds", "0:19", "diab">>),
    Dict(MaisieKeys, <<"", "", "", "">>),
    Dict(MaisieKeys, <<"10", "inf", "nan", "door">>),
    EmptyDict }

MinnaKeys == <<"q5", "q6", "q7", "q8">>

MinnaAnswers ==
  { Dict(MinnaKeys, <<"Door", "5 seconds", "6 seconds",
                      "Guideline is 5% - 10%. I would opt for 10% since she's been doing well.">>),
    Dict(MinnaKeys, <<"Door", "3 seconds absence", "5 seconds", "8 minutes and 8 seconds">>),
    Dict(MinnaKeys, <<"DIAB", "5", "6 sec", "15%">>),
    Dict(MinnaKeys, <<"", "", "", "">>) }

OliverKeys == <<"q9", "q10", "q11", "q12">>

OliverAnswers ==
  { Dict(OliverKeys, <<"3:20", "3:40", "3:20", "Decrease the target duration">>),
    Dict(OliverKeys, <<"5 minutes and 30 seconds", "5:45", "5:30", "Key is a bore">>),
    Dict(OliverKeys, <<"5:00", "5:20", "5 minutes", "drop the duration">>),
    Dict(OliverKeys, <<"", "", "", "">>) }

BellaKeys == <<"q13", "q13b", "q14", "q14b", "q15", "q15b", "q16">>

BellaAnswers ==
  { Dict(BellaKeys, <<"1:25", "8-10 warm ups", "1:35", "5-8 steps", "1:54", "5-8 steps",
       "begin the Car is a bore training at step 7">>),
    Dict(BellaKeys, <<"2:45", "5", "2:00", "4", "2:30", "4",
       "Open the car, get in, close door, sit in car for 10 seconds.">>),
    Dict(BellaKeys, <<"2:45", "5", "2:55", "3", "3:05", "3", "car is a bore">>),
    Dict(BellaKeys, <<"", "", "", "", "", "", "">>) }

DiabAnswers ==
  { Dict(<<"q17">>, <<"1 rep of steps 1 & 2">>),
    Dict(<<"q17">>, <<"5 repetitions of step 1 and 2">>),
    Dict(<<"q17">>, <<"">>),
    Dict(<<"q18">>, <<"no more questions">>),
    EmptyDict }

Submissions ==
  { a @@ b @@ c @@ d @@ e :
      a \in MaisieAnswers, b \in MinnaAnswers, c \in OliverAnswers,
      d \in BellaAnswers, e \in DiabAnswers }

Init ==
  /\ answers \in Submissions
  /\ target = "all"
  /\ pc = "selected"
  /\ results = <<>>
  /\ verdict = NoVerdict
  /\ step = 0
  /\ history = <<>>
  /\ normalized_answers = EmptyDict
  /\ api_key = ""
  /\ phase = "none"

\* the grade button of app.py: grade_submission(answers), then
\* determine_overall_grade(results); both are stored, or the exception of a
\* grader ends the handler with nothing stored
\* a pass that hands back the results the pass before it stored
StoreSubmission_previous(r) ==
  LET handed == IF results = <<>> THEN r ELSE [raised |-> FALSE, results |-> results]
  IN /\ history' = Append(history, [answers |-> answers, returned |-> handed])
     /\ pc' = "graded"
     /\ results' = r.results
     /\ verdict' = determine_overall_grade(handed.results)

StoreSubmission(r) ==
  /\ history' = Append(history, [answers |-> answers, returned |-> r])
  /\ IF r.raised
     THEN /\ pc' = "failed"
          /\ UNCHANGED <<results, verdict>>
     ELSE /\ pc' = "graded"
          /\ results' = r.results
          /\ verdict' = determine_overall_grade(r.results)

GradeButton ==
  /\ pc = "selected"
  /\ target = "all"
  /\ StoreSubmission(grade_submission(answers, "", TRUE, EmptyDict))
  /\ UNCHANGED <<answers, target, step, phase, normalized_answers, api_key>>

Next == GradeButton

Spec == Init /\ [][Next]_vars

(***************************************************************************)
(* A session of the app: one submission after another is selected and      *)
(* graded, a submission possibly more than once.                           *)
(***************************************************************************)
MaxPasses == 3

\* the submissions of the sheet: they differ in Maisie's answers
SessionSubmissions ==
  { s \in Submissions :
      /\ Get(s, "q5") = "Door" /\ Get(s, "q6") = "5 seconds"
      /\ Get(s, "q9") = "3:20"
      /\ Get(s, "q13") = "1:25"
      /\ Get(s, "q17") = "1 rep of steps 1 & 2" }

InitSession ==
  /\ answers \in SessionSubmissions
  /\ target = "all"
  /\ pc = "selected"
  /\ results = <<>>
  /\ verdict = NoVerdict
  /\ step = 0
  /\ history = <<>>
  /\ normalized_answers = EmptyDict
  /\ api_key = ""
  /\ phase = "none"

\* the select box of app.py: the results stored stay until the next pass
SelectStudent ==
  /\ pc \in {"graded", "failed"}
  /\ Len(history) < MaxPasses
  /\ answers' \in SessionSubmissions
  /\ pc' = "selected"
  /\ UNCHANGED <<target, results, verdict, step, phase, history, normalized_answers, api_key>>

NextSession ==
  \/ GradeButton
  \/ SelectStudent

SpecSession == InitSession /\ [][NextSession]_vars

(***************************************************************************)
(* One grader called on its own, as grade_submission calls it for the      *)
(* question target, on the answers it reads.                               *)
(***************************************************************************)
MaxSteps == 140

OldSeconds == {5, 6, 20, 100, 119, 120, 200}

\* the question whose answer is the prior stage of a percentage grader
PriorOf ==
  Dict(<<"q2", "q3", "q6", "q7", "q10", "q14", "q15">>,
       <<"q1", "q2", "q5", "q6", "q9", "q13", "q14">>)

\* a duration of h half seconds as a respondent types it: 7, 7.5, 1:47
Show(h) ==
  IF h % 2 = 1 THEN NatToStr(h \div 2) \o ".5"
  ELSE LET n == h \div 2
       IN IF n >= 60
          THEN NatToStr(n \div 60) \o ":" \o
               (IF n % 60 < 10 THEN "0" ELSE "") \o NatToStr(n % 60)
          ELSE NatToStr(n)

InitGrader ==
  /\ \/ \E q \in DOMAIN PriorOf, old \in OldSeconds, j \in -2..MaxSteps :
          /\ target = q
          /\ answers = Dict(<<PriorOf[q], q>>, <<Show(2 * old), Show(2 * old + j)>>)
     \/ \E q \in Range(duration_questions),
           own \in {"", "soon", "not sure yet", "door", "DIAB", "0", "inf"} :
          \E other \in [(IF q = "q11" THEN {"q9", "q10"}
                         ELSE IF q \in DOMAIN PriorOf THEN {PriorOf[q]}
                         ELSE {}) -> {"", "soon", "door", "5", "3:20"}] :
            /\ target = q
            /\ answers = Dict(<<q>>, <<own>>) @@ other
     \/ /\ target = "q11"
        /\ \E t \in {u \in {0, 2, 20, 200}
                        \X {"", "door", "soon", "0", "2", "20", "22", "3:20", "3:22", "3:40"}
                        \X (-14..14) : 2 * u[1] + u[3] >= 0} :
             answers = Dict(OliverKeys, <<Show(2 * t[1]), t[2], Show(2 * t[1] + t[3]), "">>)
     \/ \E h \in 0..MaxSteps :
          /\ target = "q1"
          /\ answers = Dict(<<"q1">>, <<Show(h)>>)
     \/ \E reps \in {"", "0", "none", "None", "none needed", "no reps", "zero", "one",
                      "a rep or two", "a couple", "on the phone", "1", "3 reps", "4", "5",
                      "10", "11", "0 reps", "1 rep of steps 1 & 2",
                      "5 repetitions of step 1 and 2"} :
          /\ target = "q17"
          /\ answers = Dict(<<"q17">>, <<reps>>)
     \/ \E count \in {"", "a few", "none", "None needed", "0", "00", "1", "2", "3", "4", "5",
                       "6", "7", "8", "9", "10", "12", "5-8 steps", "8-10 warm ups", "about 3"} :
          \/ \E q13 \in {"", "soon", "door", "0", "0:00", "30", "59.5", "60", "1:30",
                          "90 seconds", "4:59", "5:00", "14:59", "15 minutes", "20:00", "inf"} :
               /\ target = "q13b"
               /\ answers = Dict(<<"q13", "q13b">>, <<q13, count>>)
          \/ \E q13b \in {"", "a few", "none", "0", "1", "2", "5", "7", "8", "9", "8-10 warm ups"} :
               /\ target = "q14b"
               /\ answers = Dict(<<"q13b", "q14b">>, <<q13b, count>>)
  /\ pc = "selected"
  /\ results = <<>>
  /\ verdict = NoVerdict
  /\ step = 0
  /\ history = <<>>
  /\ normalized_answers = EmptyDict
  /\ api_key = ""
  /\ phase = "none"

\* the call of the grader of target; its exception leaves no result
StoreResult(r) ==
  IF r.exc
  THEN pc' = "failed" /\ UNCHANGED results
  ELSE pc' = "graded" /\ results' = << <<target, r>> >>

GradeQuestion ==
  /\ pc = "selected"
  /\ target # "all"
  /\ StoreResult(GraderCall(target, answers, NormalizedAnswers(answers, "", TRUE, EmptyDict)))
  /\ UNCHANGED <<answers, target, verdict, step, phase, history, normalized_answers, api_key>>

SpecGrader == InitGrader /\ [][GradeQuestion]_vars

(***************************************************************************)
(* A percentage grader called again and again on one prior answer, the     *)
(* answer of target growing by half a second from one call to the next.    *)
(* phase tells what the calls so far returned: "low" none correct yet,     *)
(* "in" the last one correct, "after" incorrect after a correct one,       *)
(* "again" correct after that.                                             *)
(***************************************************************************)
SweepTargets == {"q2", "q3", "q7", "q10", "q14", "q15"}

\* the prior answer of the sweep, in half seconds
OldHalf == 2 * (CHOOSE o \in OldSeconds : Show(2 * o) = answers[PriorOf[target]])

InitSweep ==
  /\ target \in SweepTargets
  /\ \E old \in OldSeconds : answers = Dict(<<PriorOf[target], target>>, <<Show(2 * old), Show(0)>>)
  /\ pc = "selected"
  /\ results = <<>>
  /\ verdict = NoVerdict
  /\ step = 0
  /\ history = <<>>
  /\ normalized_answers = EmptyDict
  /\ api_key = ""
  /\ phase = "low"

\* the result of one call of the sweep, and what it makes of phase
StoreSweep(r) ==
  IF r.exc
  THEN pc' = "failed" /\ UNCHANGED <<results, phase>>
  ELSE /\ pc' = "graded"
       /\ results' = << <<target, r>> >>
       /\ phase' = IF r.is_correct
                   THEN (IF phase \in {"low", "in"} THEN "in" ELSE "again")
                   ELSE (IF phase = "low" THEN "low" ELSE IF phase = "in" THEN "after" ELSE phase)

SweepStep ==
  /\ pc \in {"selected", "graded"}
  /\ target \in SweepTargets
  /\ step < OldHalf + MaxSteps
  /\ StoreSweep(GraderCall(target, answers, NormalizedAnswers(answers, "", TRUE, EmptyDict)))
  /\ step' = step + 1
  /\ answers' = [answers EXCEPT ![target] = Show(step + 1)]
  /\ UNCHANGED <<target, verdict, history, normalized_answers, api_key>>

SpecSweep == InitSweep /\ [][SweepStep]_vars

(***************************************************************************)
(* One call of a function of the module on its own.  target is the         *)
(* function called, answers binds its parameter to the argument, results   *)
(* lists what the calls returned.  The text format_duration returns is     *)
(* handed to parse_duration.                                               *)
(***************************************************************************)
MaxHalf == 1900

\* the numbers written into the duration texts
TextNumbers == {0, 1, 2, 5, 9, 10, 30, 59, 60, 61, 90, 100, 600}

\* the forms of a duration text the parser's patterns are written for
DurationText(form, N, M) ==
  CASE form = "minutes seconds" -> NatToStr(N) \o " minutes " \o NatToStr(M) \o " seconds"
    [] form = "colon" -> NatToStr(N) \o ":" \o NatToStr(M)
    [] form = "quotes" -> NatToStr(N) \o "'" \o NatToStr(M) \o "\""
    [] form = "minutes" -> NatToStr(N) \o " minutes"
    [] form = "seconds" -> NatToStr(N) \o " seconds"
    [] form = "bare" -> NatToStr(N)

\* texts that name the alternative protocol among other words
KeywordTexts ==
  { pre \o kw \o post :
      pre \in {"", "5 ", "2:30 ", "3 minutes ", "10 seconds at the "},
      kw \in {"door", "DOOR", "Door", "dOoR", "diab", "DIAB", "Diab", "outdoors"},
      post \in {"", " 5", " 30 seconds", ":30", " is a bore"} }

InitCall ==
  /\ \/ /\ target \in {"get_guideline_range", "get_warmup_range"}
        /\ \E d \in {Num(h, 2) : h \in 0..MaxHalf} \cup {Inf(1)} :
             answers = Dict(<<"duration_seconds">>, <<d>>)
     \/ /\ target = "format_duration"
        /\ \E h \in 0..MaxHalf : answers = Dict(<<"seconds">>, <<Num(h, 2)>>)
     \/ /\ target = "parse_duration"
        /\ \E text \in KeywordTexts \cup
                       { DurationText(form, N, M) :
                           form \in {"minutes seconds", "colon", "quotes"},
                           N \in TextNumbers, M \in TextNumbers } \cup
                       { DurationText(form, N, 0) :
                           form \in {"minutes", "seconds", "bare"}, N \in TextNumbers } \cup
                       {"", "soon", "7.5", "+7", "-5", "-5 seconds", "-1:30", "1:-30",
                        "inf", "-inf", "infinity", "nan", "nan:30"} :
             answers = Dict(<<"duration_str">>, <<text>>)
  /\ pc = "selected"
  /\ results = <<>>
  /\ verdict = NoVerdict
  /\ step = 0
  /\ history = <<>>
  /\ normalized_answers = EmptyDict
  /\ api_key = ""
  /\ phase = "none"

CallGuidelineRange ==
  /\ pc = "selected"
  /\ target = "get_guideline_range"
  /\ results' = << <<target, get_guideline_range(answers["duration_seconds"])>> >>
  /\ pc' = "returned"
  /\ UNCHANGED <<answers, target, verdict, step, phase, history, normalized_answers, api_key>>

CallWarmupRange ==
  /\ pc = "selected"
  /\ target = "get_warmup_range"
  /\ results' = << <<target, get_warmup_range(answers["duration_seconds"])>> >>
  /\ pc' = "returned"
  /\ UNCHANGED <<answers, target, verdict, step, phase, history, normalized_answers, api_key>>

CallFormatDuration ==
  /\ pc = "selected"
  /\ target = "format_duration"
  /\ LET text == format_duration(answers["seconds"])
     IN IF text = Raise
        THEN pc' = "failed" /\ UNCHANGED <<answers, target, results>>
        ELSE /\ results' = << <<target, text>> >>
             /\ answers' = answers @@ Dict(<<"duration_str">>, <<text>>)
             /\ target' = "parse_duration"
             /\ pc' = "selected"
  /\ UNCHANGED <<verdict, step, phase, history, normalized_answers, api_key>>

CallParseDuration ==
  /\ pc = "selected"
  /\ target = "parse_duration"
  /\ results' = Append(results, <<target, parse_duration(answers["duration_str"])>>)
  /\ pc' = "returned"
  /\ UNCHANGED <<answers, target, verdict, step, phase, history, normalized_answers, api_key>>

NextCall ==
  \/ CallGuidelineRange
  \/ CallWarmupRange
  \/ CallFormatDuration
  \/ CallParseDuration

SpecCall == InitCall /\ [][NextCall]_vars

(***************************************************************************)
(* grade_submission step by step, two passes side by side.  Each pass has  *)
(* its own answers, copy, results and position: answers, normalized_       *)
(* answers, results, pc, step and history are here functions of the pass.  *)
(* step counts the duration questions the loop of lines 1368-1372 has      *)
(* visited; history lists the calls of the normalizer: question, raw       *)
(* answer, reply of the service, value returned and the number of graders  *)
(* that had run.                                                           *)
(***************************************************************************)
Passes == {"first", "second"}

\* the answer maps graded: one has an answer in words, one has none
InitPass ==
  /\ answers \in [Passes ->
       { Dict(<<"q1", "q13", "q14", "q15", "q17">>,
              <<"15", "1:25", "1:35", "a bit under two minutes", "1 rep of steps 1 & 2">>),
         Dict(<<"q1", "q2", "q14", "q15">>, <<"10", "12", "2:00", "2:10">>) }]
  /\ api_key \in {"", "sk-ant-key"}
  /\ normalized_answers = [p \in Passes |-> EmptyDict]
  /\ results = [p \in Passes |-> <<>>]
  /\ pc = [p \in Passes |-> "called"]
  /\ step = [p \in Passes |-> 0]
  /\ history = [p \in Passes |-> <<>>]
  /\ target = "all"
  /\ verdict = NoVerdict
  /\ phase = "none"

\* a copy kept in one place for all passes: the pass that copies last wins
CopyAnswers_shared(p) ==
  /\ pc[p] = "called"
  /\ normalized_answers' = [r \in Passes |-> answers[p]]
  /\ pc' = [pc EXCEPT ![p] = IF api_key # "" THEN "normalize" ELSE "grade"]
  /\ UNCHANGED <<answers, target, results, verdict, step, phase, history, api_key>>

\* line 1366 and the test of line 1367
CopyAnswers(p) ==
  /\ pc[p] = "called"
  /\ normalized_answers' = [normalized_answers EXCEPT ![p] = answers[p]]
  /\ pc' = [pc EXCEPT ![p] = IF api_key # "" THEN "normalize" ELSE "grade"]
  /\ UNCHANGED <<answers, target, results, verdict, step, phase, history, api_key>>

\* the loop writing to the caller's map, no copy having been made
NormalizeQuestion_in_place(p) ==
  /\ pc[p] = "normalize"
  /\ LET q_id == duration_questions[step[p] + 1]
         raw_answer == Get(answers[p], q_id)
     IN \E reply \in {Raise, "DOOR", "INVALID", "105", "nan"} :
          LET value == normalize_duration_with_llm(raw_answer, api_key, TRUE, reply)
          IN /\ answers' =
                  IF raw_answer # ""
                  THEN [answers EXCEPT ![p] = (q_id :> value) @@ @]
                  ELSE answers
             /\ normalized_answers' = [normalized_answers EXCEPT ![p] = answers'[p]]
  /\ step' = [step EXCEPT ![p] = @ + 1]
  /\ pc' = [pc EXCEPT ![p] = IF step[p] + 1 = Len(duration_questions)
                              THEN "grade" ELSE "normalize"]
  /\ UNCHANGED <<target, results, verdict, phase, history, api_key>>

\* one turn of the loop of lines 1368-1372; the service is heard only when
\* normalize_duration_with_llm gets as far as calling it, and may answer
\* with an error or timeout, the marker, the refusal, a number of seconds
\* or not a number
NormalizeQuestion(p) ==
  /\ pc[p] = "normalize"
  /\ LET q_id == duration_questions[step[p] + 1]
         raw_answer == Get(answers[p], q_id)
     IN \E reply \in (IF normalize_duration_with_llm(raw_answer, api_key, TRUE, "DOOR") = raw_answer
                      THEN {""} ELSE {Raise, "DOOR", "INVALID", "105", "nan"}) :
          LET value == normalize_duration_with_llm(raw_answer, api_key, TRUE, reply)
          IN /\ normalized_answers' =
                  IF raw_answer # ""
                  THEN [normalized_answers EXCEPT ![p] = (q_id :> value) @@ @]
                  ELSE normalized_answers
             /\ history' =
                  IF raw_answer # ""
                  THEN [history EXCEPT ![p] =
                          Append(@, [q |-> q_id, raw |-> raw_answer, reply |-> reply,
                                     returned |-> value, graded |-> Len(results[p])])]
                  ELSE history
  /\ step' = [step EXCEPT ![p] = @ + 1]
  /\ pc' = [pc EXCEPT ![p] = IF step[p] + 1 = Len(duration_questions)
                              THEN "grade" ELSE "normalize"]
  /\ UNCHANGED <<answers, target, results, verdict, phase, api_key>>

\* the next grader call of lines 1374-1402 on the answers and the copy
\* given; an exception of the grader ends the pass
GradeStep(p, own_answers, own_copy) ==
  /\ pc[p] = "grade"
  /\ LET q == QuestionOrder[Len(results[p]) + 1]
         r == GraderCall(q, own_answers, own_copy)
     IN IF r.exc
        THEN /\ pc' = [pc EXCEPT ![p] = "failed"]
             /\ UNCHANGED results
        ELSE /\ results' = [results EXCEPT ![p] = Append(@, <<q, r>>)]
             /\ pc' = [pc EXCEPT ![p] = IF Len(results[p]) + 1 = Len(QuestionOrder)
                                         THEN "returned" ELSE "grade"]
  /\ UNCHANGED <<answers, target, verdict, step, phase, history, normalized_answers, api_key>>

\* every grader given the raw answers
GradeNext_raw(p) == GradeStep(p, answers[p], answers[p])

GradeNext(p) == GradeStep(p, answers[p], normalized_answers[p])

NextPass ==
  \E p \in Passes :
     \/ CopyAnswers(p)
     \/ NormalizeQuestion(p)
     \/ GradeNext(p)

SpecPass == InitPass /\ [][NextPass]_vars

(***************************************************************************)
(* Properties of a grading pass.                                           *)
(***************************************************************************)
QuestionIds ==
  {"q1", "q2", "q3", "q4", "q5", "q6", "q7", "q8", "q9", "q10", "q11", "q12",
   "q13", "q13b", "q14", "q14b", "q15", "q15b", "q16", "q17"}

Incorrect(res) == {i \in 1..Len(res) : ~res[i][2].is_correct}

IncorrectIds(res) == {res[i][1] : i \in Incorrect(res)}

\* C1: for every answer map of strings, empty, all-blank, with missing and
\* with extra keys, grade_submission returns without raising, and the map it
\* returns binds each of the 20 question ids, once, to a GradeResult.
C1_Totality ==
  /\ pc # "failed"
  /\ pc = "graded" =>
       /\ Len(results) = Cardinality(QuestionIds)
       /\ {results[i][1] : i \in 1..Len(results)} = QuestionIds
       /\ \A i \in 1..Len(results) :
            /\ results[i][2].is_correct \in BOOLEAN
            /\ results[i][2].confidence \in {"high", "review"}

\* C2: the verdict is Resubmit exactly when three or more questions are
\* incorrect or an incorrect question is one of q1, q5, q9, q13, q4, and is
\* Cleared in every other case.
C2_Verdict ==
  pc = "graded" =>
    IF \/ Cardinality(Incorrect(results)) >= 3
       \/ IncorrectIds(results) \cap {"q1", "q5", "q9", "q13", "q4"} # {}
    THEN verdict.grade = "Resubmit"
    ELSE verdict.grade = "Cleared"

\* a pass with two incorrect questions, neither critical, is Cleared
C2_Witness ==
  /\ pc = "graded"
  /\ Cardinality(Incorrect(results)) = 2
  /\ verdict.grade = "Cleared"

\* C3: on a Resubmit the list holds exactly the incorrect questions, each
\* once, as (question id, label) pairs in the order of the result map.
C3_ResubmitList ==
  (pc = "graded" /\ verdict.grade = "Resubmit") =>
    LET wrong == SelectSeq(results, LAMBDA p : ~p[2].is_correct)
    IN verdict.resubmit = [i \in 1..Len(wrong) |-> <<wrong[i][1], question_labels[wrong[i][1]]>>]

\* a Resubmit that lists some of the questions and leaves others out, with a
\* correct question between two listed ones
C3_Witness ==
  /\ pc = "graded"
  /\ verdict.grade = "Resubmit"
  /\ Len(verdict.resubmit) >= 3
  /\ \E i, j, k \in 1..Len(results) :
       /\ i < j /\ j < k
       /\ ~results[i][2].is_correct
       /\ results[j][2].is_correct
       /\ ~results[k][2].is_correct
       /\ ~results[i][1] \in critical_questions
       /\ ~results[k][1] \in critical_questions

C25_ClearedListEmpty ==
  (pc = "graded" /\ verdict.grade = "Cleared") => verdict.resubmit = <<>>

\* the questions whose grader takes the answer of q as a prior input
ReadersOf(q) ==
  CASE q = "q1" -> {"q2"}
    [] q = "q2" -> {"q3"}
    [] q = "q5" -> {"q6"}
    [] q = "q6" -> {"q7"}
    [] q = "q9" -> {"q10", "q11"}
    [] q = "q10" -> {"q11"}
    [] q = "q13" -> {"q13b", "q14"}
    [] q = "q13b" -> {"q14b"}
    [] q = "q14" -> {"q15"}
    [] q = "q14b" -> {"q15b"}
    [] OTHER -> {}

\* the answers a question is changed to
ChangedAnswers == {"", "17", "2:00", "inf"}

\* the pass over the answers with the answer of q changed to v, no normalizer
ChangedRun(q, v) == grade_submission((q :> v) @@ answers, "", TRUE, EmptyDict)

\* the results of the questions that do not read q agree in the two runs
SameElsewhere(q, changed) ==
  /\ Len(changed) = Len(results)
  /\ \A i \in 1..Len(results) :
       results[i][1] \notin ({q} \cup ReadersOf(q)) => changed[i] = results[i]

\* C28: with no normalizer, changing the answer of one question changes only
\* the GradeResult of that question and of the questions that take it as a
\* prior input; the run on the changed answers returns the same GradeResult
\* for every other question.
C28_DependencyIsolation ==
  (pc = "graded" /\ target = "all") =>
    \A q \in QuestionIds, v \in ChangedAnswers :
       /\ ~ChangedRun(q, v).raised
       /\ SameElsewhere(q, ChangedRun(q, v).results)

(***************************************************************************)
(* Properties of a pass taken step by step.                                *)
(***************************************************************************)
\* the call of the normalizer for question q in pass p, 0 if there was none
CallFor(p, q) ==
  IF \E i \in 1..Len(history[p]) : history[p][i].q = q
  THEN CHOOSE i \in 1..Len(history[p]) : history[p][i].q = q
  ELSE 0

\* the answers of pass p with each answer the normalizer was called for
\* replaced by what the call returned
NormalizedValues(p) ==
  [q \in DOMAIN answers[p] |->
     IF CallFor(p, q) # 0 THEN history[p][CallFor(p, q)].returned ELSE answers[p][q]]

\* C22: with a normalizer configured, the normalizer is called at most once
\* for each of the twelve duration questions and for no other question,
\* every call happens before the first grader runs, and every grader is
\* given the normalized value of each duration answer it takes.
C22_NormalizeThenGrade ==
  \A p \in Passes :
     api_key # "" =>
       /\ \A i, j \in 1..Len(history[p]) : i # j => history[p][i].q # history[p][j].q
       /\ \A i \in 1..Len(history[p]) :
            /\ history[p][i].q \in {"q1", "q2", "q3", "q5", "q6", "q7", "q9", "q10", "q11",
                                     "q13", "q14", "q15"}
            /\ history[p][i].graded = 0
       /\ \A k \in 1..Len(results[p]) :
            results[p][k][2] = GraderCall(results[p][k][1], answers[p], NormalizedValues(p))

\* a pass has returned in which the service's number replaced an answer
C22_Witness ==
  \E p \in Passes :
     /\ api_key # ""
     /\ pc[p] = "returned"
     /\ \E i \in 1..Len(history[p]) :
          history[p][i].reply = "105" /\ history[p][i].returned = "105"

\* the reply is the marker or a string that reads as a number of seconds
UsableReply(reply) ==
  reply # Raise /\ (Strip(reply) = "DOOR" \/ IsNum(PyFloat(Lower(Strip(reply)))))

\* C23: normalize_duration_with_llm returns its input unchanged whenever the
\* service call raises or times out and whenever the reply is anything but
\* 'DOOR' or a numeric-seconds string; no error of the service reaches the
\* caller of grade_submission.
C23_FailOpen ==
  \A p \in Passes :
     \A i \in 1..Len(history[p]) :
        ~UsableReply(history[p][i].reply) => history[p][i].returned = history[p][i].raw

\* the replies pass p heard, by question
RepliesHeard(p) ==
  [q \in Range(duration_questions) |->
     IF CallFor(p, q) # 0 THEN history[p][CallFor(p, q)].reply ELSE ""]

\* pass p run alone on its answers, hearing the same replies
Alone(p) == grade_submission(answers[p], api_key, TRUE, RepliesHeard(p))

\* C24: interleaved in any order, each pass returns the result map it
\* returns when run alone (and raises when it raises alone); nothing one
\* pass writes is read by the other.
C24_SameAsAlone ==
  \A p \in Passes :
     /\ pc[p] = "returned" => (~Alone(p).raised /\ results[p] = Alone(p).results)
     /\ pc[p] = "failed" => Alone(p).raised

\* one pass has returned while the other, on other answers, is part way
\* through its graders
C24_Witness ==
  /\ answers["first"] # answers["second"]
  /\ pc["second"] = "returned"
  /\ pc["first"] = "grade"
  /\ Len(results["first"]) > 0

\* C29: grade_submission leaves the caller's answer map unchanged, with or
\* without a normalizer: same keys, same raw answers; normalized values go
\* to the copy only.
C29_AnswersUnchanged == [][answers' = answers]_vars

\* a pass has returned whose copy holds a normalized value
C29_Witness ==
  \E p \in Passes :
     /\ pc[p] = "returned"
     /\ normalized_answers[p] # answers[p]

(***************************************************************************)
(* Properties of one grader.  The percentage of a claim is the exact one.  *)
(***************************************************************************)
OneGraded == pc = "graded" /\ target # "all"

TheResult == results[1][2]

OwnDuration == parse_duration(Get(answers, target))

PriorDuration == parse_duration(Get(answers, PriorOf[target]))

\* both durations parse and new > old
Increase(old, new) == IsNum(old) /\ IsNum(new) /\ XLt(old, new)

ExactPct(old, new) == XMul(XDiv(XSub(new, old), old), Int2Num(100))

\* the guideline band of the rule: 10-20 under 120 s, 5-10 from 120 s
BandLower(old) == IF XLt(old, Int2Num(120)) THEN Int2Num(10) ELSE Int2Num(5)

BandUpper(old) == IF XLt(old, Int2Num(120)) THEN Int2Num(20) ELSE Int2Num(10)

\* empty, or text with no number and no keyword of the alternative protocol
Unparseable(text) ==
  /\ parse_duration(text) = None
  /\ ~Contains(Lower(text), "door")
  /\ ~Contains(Lower(text), "diab")

\* C4: a duration question whose own answer is unparseable is graded
\* incorrect, whatever the other answers are.
C4_ParseFailureIncorrect ==
  (OneGraded /\ target \in Range(duration_questions) /\ Unparseable(Get(answers, target)))
    => ~TheResult.is_correct

\* C5: each of q2, q3, q6 (q5 numeric), q7, q10, q14, q15 takes its band
\* from the rule applied to the prior duration: an increase inside the band
\* of the prior duration is graded correct.
C5_BandFromRule ==
  (OneGraded /\ target \in DOMAIN PriorOf) =>
    LET old == PriorDuration
        new == OwnDuration
        pct == ExactPct(old, new)
    IN (Increase(old, new) /\ XLe(BandLower(old), pct) /\ XLe(pct, BandUpper(old)))
         => TheResult.is_correct

\* C6, as stated: in q2, q3, q7, q10, q14, q15 an increase strictly below the
\* lower bound of the band of the prior duration is graded incorrect.
C6_BelowBandIncorrect ==
  (OneGraded /\ target \in SweepTargets) =>
    LET old == PriorDuration
        new == OwnDuration
    IN (Increase(old, new) /\ XLt(ExactPct(old, new), BandLower(old)))
         => ~TheResult.is_correct

\* the increase below which the grader of q answers "too conservative"
LowerThreshold(q, old) ==
  CASE q \in {"q2", "q3"} -> BandLower(old)
    [] q \in {"q14", "q15"} -> XSub(BandLower(old), Int2Num(1))
    [] q = "q7" -> XSub(BandLower(old), Int2Num(2))
    [] q = "q10" -> Int2Num(4)

\* C6, amended: an increase strictly below the grader's lower threshold is
\* graded incorrect: the lower bound of the band in q2 and q3, that bound
\* minus 1 in q14 and q15, that bound minus 2 in q7 unless the prior duration
\* is at most 6 s and the new one at most 8 s, and 4% in q10.
C6_BelowThresholdIncorrect ==
  (OneGraded /\ target \in SweepTargets) =>
    LET old == PriorDuration
        new == OwnDuration
    IN (/\ Increase(old, new)
        /\ XLt(ExactPct(old, new), LowerThreshold(target, old))
        /\ ~(target = "q7" /\ XLe(old, Int2Num(6)) /\ XLe(new, Int2Num(8))))
         => ~TheResult.is_correct

\* q14 on a prior duration under 120 s, graded incorrect for an increase
\* between 8% and 9%
C6_Witness ==
  /\ OneGraded
  /\ target = "q14"
  /\ Increase(PriorDuration, OwnDuration)
  /\ XLt(PriorDuration, Int2Num(120))
  /\ XLt(Int2Num(8), ExactPct(PriorDuration, OwnDuration))
  /\ XLt(ExactPct(PriorDuration, OwnDuration), Int2Num(9))
  /\ ~TheResult.is_correct

\* C7: for a fixed prior duration, as the answer of q2, q3, q7, q10, q14 or
\* q15 grows, no answer is graded correct after one graded incorrect that
\* followed a correct one: between two correct answers all are correct.
C7_Monotone == phase # "again"

\* a sweep that has passed through the correct answers and left them
C7_Witness ==
  /\ phase = "after"
  /\ step > OldHalf + 2
  /\ ~results[1][2].is_correct

\* C8: in q2, q3, q10, q14, q15 the confidence is "review" exactly when the
\* increase is within 2 points of the lower or of the upper edge of the band
\* of the prior duration, or above the upper edge by at most 3 points.
C8_ReviewWindow ==
  (OneGraded /\ target \in {"q2", "q3", "q10", "q14", "q15"}) =>
    LET old == PriorDuration
        new == OwnDuration
        pct == ExactPct(old, new)
    IN Increase(old, new) =>
         (TheResult.confidence = "review" <=>
            \/ XLe(XAbs(XSub(pct, BandLower(old))), Int2Num(2))
            \/ XLe(XAbs(XSub(pct, BandUpper(old))), Int2Num(2))
            \/ (XLt(BandUpper(old), pct) /\ XLe(pct, XAdd(BandUpper(old), Int2Num(3)))))

\* a duration of a whole number of half seconds, in half seconds
Half(x) == (2 * x.n) \div x.d

\* is_correct for the answer of h half seconds to target, the rest kept
IsCorrectAt(h) ==
  LET other == [answers EXCEPT ![target] = Show(h)]
  IN GraderCall(target, other, other).is_correct

\* C9: in q2, q3, q7, q10, q14, q15 an increase within 1 point of one where
\* is_correct changes has confidence "review": if an answer above the prior
\* duration and at most 1 point away is graded the other way, the confidence
\* is "review".
C9_ReviewAtThreshold ==
  (OneGraded /\ target \in SweepTargets) =>
    LET old == PriorDuration
        new == OwnDuration
        reach == Half(old) \div 100
    IN (/\ Increase(old, new)
        /\ Get(answers, target) = Show(Half(new))
        /\ \E h \in (Half(new) - reach)..(Half(new) + reach) :
             h > Half(old) /\ IsCorrectAt(h) # TheResult.is_correct)
         => TheResult.confidence = "review"

\* q11 and q9 both parse and q11 is within 5 s of q9
WithinFive(q9_duration, q11_duration) ==
  /\ IsNum(q9_duration)
  /\ IsNum(q11_duration)
  /\ XLe(XAbs(XSub(q11_duration, q9_duration)), Int2Num(5))

C11_CalculationShown ==
  (OneGraded /\ target \in SweepTargets /\ IsNum(PriorDuration) /\ IsNum(OwnDuration)) =>
    /\ TheResult.calculation # NoCalc
    /\ TheResult.calculation # ""
    /\ Contains(TheResult.calculation, format_duration(PriorDuration))
    /\ Contains(TheResult.calculation, format_duration(OwnDuration))

\* C14: in q2 and q3, on a parsed prior duration 0 < old < 120 s and a parsed
\* new duration, is_correct is true exactly when new > old and the increase
\* (new - old) / old * 100 lies in [10, 20.5]; 20 s to 24 s passes, 20 s to
\* 30 s fails.
C14_ShortBand ==
  (OneGraded /\ target \in {"q2", "q3"}) =>
    LET old == PriorDuration
        new == OwnDuration
        pct == ExactPct(old, new)
    IN (IsNum(old) /\ IsNum(new) /\ XLt(Int2Num(0), old) /\ XLt(old, Int2Num(120))) =>
         (TheResult.is_correct <=>
            (XLt(old, new) /\ XLe(Int2Num(10), pct) /\ XLe(pct, Num(205, 10))))

\* q3 on 100 s raised to 120.5 s, an increase of 20.5%, graded correct
C14_Witness ==
  /\ OneGraded
  /\ target = "q3"
  /\ answers["q2"] = "1:40" /\ answers["q3"] = "120.5"
  /\ ExactPct(PriorDuration, OwnDuration) = Num(205, 10)
  /\ TheResult.is_correct

\* C15: in q13b, for every q13 answer that parses to a duration d, d = 0
\* included, and every q13b answer with a count n, is_correct is true exactly
\* when n >= 1 and min <= n <= max for (min, max) = get_warmup_range(d); the
\* band (4, 7) is used only when the q13 answer does not parse.
C15_WarmupBand ==
  (OneGraded /\ target = "q13b") =>
    LET d == parse_duration(answers["q13"])
        n == WarmupCount(answers["q13b"], -1)
        band == IF d = None THEN [min |-> 4, max |-> 7] ELSE get_warmup_range(d)
    IN n # -1 =>
         (TheResult.is_correct <=> (n >= 1 /\ band.min <= n /\ n <= band.max))

\* C16: in q14b, 'none' and '0' read as zero and the first integer of an
\* answer as its count, is_correct is true exactly when the q14b count is
\* strictly lower than the q13b count, 7 when q13b has no count; a q14b answer
\* with no count is incorrect.
C16_StrictlyFewer ==
  (OneGraded /\ target = "q14b") =>
    LET new_warmups == WarmupCount(answers["q14b"], -1)
        old_warmups == WarmupCount(answers["q13b"], 7)
    IN TheResult.is_correct <=> (new_warmups # -1 /\ new_warmups < old_warmups)

\* the answer of target is a duration of a whole number of half seconds
\* that is graded incorrect while a shorter and a longer one are graded
\* correct, the other answers kept
InGap ==
  /\ IsNum(OwnDuration)
  /\ Get(answers, target) = Show(Half(OwnDuration))
  /\ ~TheResult.is_correct
  /\ \E a \in 0..MaxSteps, c \in 0..MaxSteps :
       /\ a < Half(OwnDuration) /\ Half(OwnDuration) < c
       /\ IsCorrectAt(a)
       /\ IsCorrectAt(c)

\* C26: the durations q1 grades correct form one range: between two
\* durations graded correct every duration is graded correct, also between
\* 19 and 20 seconds.
C26_Q1Contiguous ==
  (OneGraded /\ target = "q1") => ~InGap

\* C27: for a q5 answer that parses to a duration, the q6 durations graded
\* correct form one range, and no q6 duration at or below the q5 duration is
\* graded correct.
C27_Q6Contiguous ==
  (OneGraded /\ target = "q6" /\ PriorDuration # None) =>
    /\ ~InGap
    /\ (IsNum(OwnDuration) /\ XLe(OwnDuration, PriorDuration)) => ~TheResult.is_correct

\* w stands in s as a word of its own, no letter before or after it
HasWord(s, w) ==
  \E i \in 1..(Len(s) - Len(w) + 1) :
     /\ SubSeq(s, i, i + Len(w) - 1) = w
     /\ (i = 1 \/ ~Contains("abcdefghijklmnopqrstuvwxyz", Ch(s, i - 1)))
     /\ (i + Len(w) > Len(s) \/ ~Contains("abcdefghijklmnopqrstuvwxyz", Ch(s, i + Len(w))))

\* the q17 answer names a quantity in words: 'one', 'a rep' or 'couple'
QuantityWord(s) == HasWord(s, "one") \/ Contains(s, "a rep") \/ HasWord(s, "couple")

\* the q17 answer states zero repetitions: the number 0, or no digits and
\* 'none' as its only quantity word
ZeroRepetitions(s) ==
  IF FirstDigits(s) # "" THEN ToInt(FirstDigits(s)) = 0
  ELSE HasWord(Lower(s), "none") /\ ~QuantityWord(Lower(s))

\* C30: grade_diab_q17 grades an answer of zero repetitions incorrect however
\* it is written ('0', 'none', or no digits and 'none' as the only quantity
\* word), and grades an answer correct only when it states 1 to 4 repetitions
\* or uses 'one', 'a rep' or 'couple' as a quantity.
C30_ZeroIsIncorrect ==
  (OneGraded /\ target = "q17") =>
    LET answer == Get(answers, "q17")
    IN /\ ZeroRepetitions(answer) => ~TheResult.is_correct
       /\ TheResult.is_correct =>
            IF FirstDigits(answer) # ""
            THEN ToInt(FirstDigits(answer)) \in 1..4
            ELSE QuantityWord(Lower(answer))

(***************************************************************************)
(* Properties of one function.                                             *)
(***************************************************************************)
HasReturned(fn) == pc = "returned" /\ target = fn

\* what the last call returned
LastReturn == results[Len(results)][2]

\* the argument is below s seconds; an infinite duration is below none
Under(d, s) == d.k = "num" /\ d.n < s * d.d

\* C12: get_guideline_range(d) is (10, 20) for every d < 120 s and (5, 10)
\* for every d >= 120 s, 120 s itself included.
C12_GuidelineRange ==
  HasReturned("get_guideline_range") =>
    LET d == answers["duration_seconds"]
    IN IF Under(d, 120)
       THEN LastReturn = [min |-> Int2Num(10), max |-> Int2Num(20)]
       ELSE LastReturn = [min |-> Int2Num(5), max |-> Int2Num(10)]

\* the call on 120 s returns the band of the long durations
C12_Witness ==
  /\ HasReturned("get_guideline_range")
  /\ answers["duration_seconds"] = Int2Num(120)
  /\ LastReturn = [min |-> Int2Num(5), max |-> Int2Num(10)]

\* C13: get_warmup_range(d) is (7, 9) for d < 60 s, (4, 7) for 60 <= d < 300,
\* (1, 5) for 300 <= d < 900 and (1, 2) for d >= 900; 60, 300 and 900 belong
\* to the bucket of the longer durations.
C13_WarmupRange ==
  HasReturned("get_warmup_range") =>
    LET d == answers["duration_seconds"]
    IN LastReturn =
         (IF Under(d, 60) THEN [min |-> 7, max |-> 9]
          ELSE IF Under(d, 300) THEN [min |-> 4, max |-> 7]
          ELSE IF Under(d, 900) THEN [min |-> 1, max |-> 5]
          ELSE [min |-> 1, max |-> 2])

\* the call on 300 s returns the bucket of 5 to 15 minutes
C13_Witness ==
  /\ HasReturned("get_warmup_range")
  /\ answers["duration_seconds"] = Int2Num(300)
  /\ LastReturn = [min |-> 1, max |-> 5]

\* the text of the first call was handed to parse_duration, which returned
RoundTripDone ==
  /\ HasReturned("parse_duration")
  /\ Len(results) = 2
  /\ results[1][1] = "format_duration"

\* C18: for every duration d >= 0, parse_duration(format_duration(d)) is a
\* number at most 1 second from d, and d itself when d is a whole number of
\* seconds, in each of the shapes 'N seconds', 'N minute(s)' and 'M:SS'.
C18_RoundTrip ==
  RoundTripDone =>
    LET d == answers["seconds"]
        back == LastReturn
    IN /\ IsNum(back)
       /\ XLe(XAbs(XSub(back, d)), Int2Num(1))
       /\ d.d = 1 => back = d

\* 119.5 s is written 1:59 and read back as 119 s
C18_Witness ==
  /\ RoundTripDone
  /\ answers["seconds"] = Num(239, 2)
  /\ results[1][2] = "1:59"
  /\ LastReturn = Int2Num(119)

\* C19: for every text that contains 'door' or 'diab' in any letter case,
\* parse_duration returns the marker of the alternative protocol, whatever
\* numbers, units and other words the text contains.
C19_KeywordFirst ==
  (HasReturned("parse_duration") /\ answers["duration_str"] \in KeywordTexts) =>
    LastReturn = None

\* a number before the keyword: '5 Door' returns the marker
C19_Witness ==
  /\ HasReturned("parse_duration")
  /\ answers["duration_str"] = "5 Door"
  /\ LastReturn = None

\* the seconds a duration text of the given form stands for
FormSeconds(form, N, M) ==
  CASE form \in {"minutes seconds", "colon", "quotes"} -> 60 * N + M
    [] form = "minutes" -> 60 * N
    [] form \in {"seconds", "bare"} -> N

\* C20: for all numbers N and M, 'N minutes M seconds', 'N:M' and N'M" give
\* 60*N+M, 'N minutes' gives 60*N, 'N seconds' and a bare N give N: the form
\* of the text decides, never the magnitude of the numbers.
C20_CanonicalForms ==
  HasReturned("parse_duration") =>
    \A form \in {"minutes seconds", "colon", "quotes", "minutes", "seconds", "bare"},
       N \in TextNumbers, M \in TextNumbers :
      answers["duration_str"] = DurationText(form, N, M) =>
        LastReturn = Int2Num(FormSeconds(form, N, M))

\* seconds above 59 after the colon: '2:90' is 210 s
C20_Witness ==
  /\ HasReturned("parse_duration")
  /\ answers["duration_str"] = DurationText("colon", 2, 90)
  /\ LastReturn = Int2Num(210)

\* C21: for every text, parse_duration returns the marker of the special
\* case or of failure, or a finite number of seconds that is not negative;
\* it never returns a negative, an infinite or a not-a-number value.
C21_ParserRange ==
  HasReturned("parse_duration") =>
    \/ LastReturn = None
    \/ LastReturn.k = "num" /\ LastReturn.n >= 0

====
